---------------------------- MODULE Spec2Model ----------------------------
(***************************************************************************)
(* Into the Abyss: the procedural audio engine (SpaceMusic), the parallax  *)
(* engine (useMotionParallax), the pulse entity (AbyssPulse) and the star  *)
(* tunnel (StarTunnel), modelled as state machines.                         *)
(*                                                                         *)
(* Each component has its own specification (SpecAudio, SpecParallax, ...) *)
(* over the shared variable list; a specification leaves the variables of  *)
(* the other components at their initial values.                           *)
(*                                                                         *)
(* Numbers the code keeps as floats are kept as scaled integers; the scale *)
(* is named where it is used.  Math.random() is an input of the action     *)
(* that calls it.                                                          *)
(***************************************************************************)
EXTENDS Integers, Sequences, FiniteSets, TLC

VARIABLES
    \* ---- SpaceMusic (five-layer engine) ----
    mounted,        \* the component is mounted
    listening,      \* the click / keydown listeners of the init effect are registered
    audioCtx,       \* audioCtxRef: "null" | "running" | "closed"
    analyserCalls,  \* number of onAnalyserReady invocations
    uncaught,       \* an exception has left handleInteraction uncaught
    active,         \* prop active
    muted,          \* prop muted
    masterTarget,   \* target of the last setTargetAtTime on the master gain, in 1/100
    layers,         \* layersRef.current; 0 stands for null, a positive number for a handle
    timers,         \* the pending callbacks whose handle the engine keeps: [id, kind]
    cleanups,       \* pending one-shot node-cleanup timeouts (handle discarded), per voice kind
    nextTimerId,    \* the id the next setTimeout / setInterval returns
    nextNodeId,     \* the id of the next audio node handle
    running,        \* continuous sources started and not yet stopped: [id, kind]
    connected,      \* ids of the layer gain nodes connected to the master gain
    windPhase,      \* ticks of the cosmic-wind LFO closure (lfoPhase / 0.02)
    voidPhase,      \* ticks of the deep-void LFO closure (phase / 0.008)
    \* ---- useMotionParallax ----
    hookVariant,    \* "hook" (hooks/useMotionParallax.ts) or "gyro" (the variant that
                    \* animates on mobile once the gyroscope is granted)
    isMobile,       \* small viewport with touch
    gyroSupported,  \* isGyroscopeSupported
    gyroGranted,    \* isGyroscopePermissionGranted
    permissionApi,  \* typeof DeviceOrientationEvent.requestPermission === "function"
    permission,     \* how the last requestGyroscopePermission() promise settled:
                    \* "none" | "true" | "false" | "rejected" (observation only)
    enabled,        \* option enabled
    followSpeed,    \* option followSpeed, in 1/1000
    centerAttraction, \* option centerAttraction, in 1/1000
    targetOffset,   \* targetOffset.current, [x, y] in 1/PScale
    currentOffset,  \* currentOffset.current, [x, y] in 1/PScale
    cssParallax,    \* --parallax-x / --parallax-y, [x, y] in 1/10000
    rafParallax,    \* number of outstanding frame requests of the animation loop
    orientationOn,  \* handleOrientation is registered
    mouseOn,        \* handleMouseMove / handleMouseLeave are registered
    parallaxFrames, \* frames run by the parallax loop
    \* ---- AbyssPulse ----
    pulseActive,    \* prop active
    analyserOn,     \* prop analyser is not null
    pulseMounted,   \* AbyssPulse is mounted
    rafPulse,       \* number of outstanding frame requests of the draw loop
    nowMs,          \* performance.now(), ms since the time origin
    lastTime,       \* lastTime of the draw closure, ms
    opacityRef,     \* opacityRef.current, in 1/OScale
    lastBeatTime,   \* lastBeatTimeRef.current, ms
    levels,         \* bassLevel, midLevel, highLevel of the last full frame, in 1/1000
                    \* (observation only)
    beatCount,      \* beats fired so far (observation only)
    restartBeats,   \* beatCount at the last restart of the draw loop, -1 before the first
                    \* (observation only)
    audioHistory,   \* audioHistoryRef.current, as band sums
    ripples,        \* ripplesRef.current
    nextRippleId,   \* identity of the next ripple object
    lastCreate,     \* what the last createRipple call did: "none" | "pushed" | "dropped"
    removedRipples, \* identities of the ripples the filter has dropped (observation only)
    mouse,          \* mouseRef.current
    touch,          \* touchRef.current
    particles,      \* particlesRef.current
    frameStrength,  \* interactionStrength of the last full frame, in 1/1000
    pulseFrames,    \* frames run by the draw loop
    pulseWindow,    \* <<window.innerWidth, window.innerHeight>> as the component sees it
    canvasPx,       \* canvas.style.width = canvas.style.height, in px
    size,           \* the size captured by the running animation effect, in px
    frameSize,      \* the size the last full frame drew with, 0 before it (observation only)
    lastEvent,      \* the last pointer or touch event handled (observation only)
    releases,       \* release ripples requested so far (observation only)
    \* ---- StarTunnel ----
    glowVariant,    \* the variant with the wider star field and the glow
    stars,          \* starsRef.current
    rngState,       \* state of Math.random()
    starWidth,      \* width of the effect closure (= canvas.width), px
    starHeight,     \* height of the effect closure (= canvas.height), px
    speedRef,       \* speedRef.current, in 1/1000
    colorStageRef,  \* colorStageRef.current
    isCollapsedRef, \* isCollapsedRef.current
    starMounted,    \* StarTunnel is mounted
    rafStar,        \* number of outstanding frame requests of the star loop
    starFrames,     \* frames run by the star loop
    \* ---- geminiService ----
    sdkVariant,     \* the variant that calls the model from the client
    lastCall,       \* the arguments of the last generateObservationReport call and whether
                    \* it failed (observation only)
    report,         \* the value its promise resolved with
    rejected,       \* its promise was rejected
    reportCalls,    \* calls made
    exchange,       \* the request the /api/gemini handler got last and its response
    \* ---- one-shot voices of the audio engines ----
    simpleEngine,   \* the engine is the pad-only SpaceMusic (components/SpaceMusic.tsx)
    voiceClock,     \* ctx.currentTime / the timer clock, in ms
    voices,         \* the voices played: [kind, connected, stopAt, cleanupAt, cleanedAt]
    \* ---- fade of the output gain (SpaceMusic master gain, AudioAmbience gain) ----
    fadeEngine,     \* "SpaceMusic" | "AudioAmbience"
    fadeCtx,        \* audioCtxRef.current is set
    gainNodeRef,    \* the ref of the faded gain node is set
    fadeActive,     \* prop active
    fadeMuted,      \* prop muted
    gainClock,      \* ctx.currentTime, in ms
    timeline,       \* automation events of gain.gain: [kind, time, by], in list order
    transitions,    \* runs of the fade effect with a context (prop changes after it exists)
    \* ---- AppContent: the focus session ----
    appState,       \* "IDLE" | "FOCUSING" | "PROCESSING" | "REPORT" | "SIGNAL_LOST" | "ARCHIVE"
    selectedTier,   \* minutes
    timeLeft,       \* seconds
    totalDuration,  \* minutes
    archive,        \* the reports archived, newest first
    currentReport,  \* a report or NoReport
    generatedRef,   \* generatedRef.current
    timerRef,       \* timerRef.current: the id of the last interval set, 0 for null
    intervals,      \* ids of the countdown intervals that are running
    closure,        \* what handleComplete of the running interval sees: the currentReport
                    \* and totalDuration of the render whose timer effect set the interval
    pending,        \* generateObservationReport promises not yet settled:
                    \* [duration, session, call]
    idleTimeouts,   \* pending timeouts of abortFocus
    session,        \* sessions started (observation only)
    completions,    \* handleComplete calls of the current session (observation only)
    generations     \* generateObservationReport calls of the current session
                    \* (observation only)

audioVars == <<mounted, listening, audioCtx, analyserCalls, uncaught, active, muted,
               masterTarget, layers, timers, cleanups, nextTimerId, nextNodeId, running,
               connected, windPhase, voidPhase>>

parallaxVars == <<hookVariant, isMobile, gyroSupported, gyroGranted, permissionApi, permission,
                  enabled, followSpeed,
                  centerAttraction, targetOffset, currentOffset, cssParallax, rafParallax,
                  orientationOn, mouseOn, parallaxFrames>>

pulseVars == <<pulseMounted, pulseActive, analyserOn, rafPulse, nowMs, lastTime, opacityRef, lastBeatTime,
               levels, beatCount, restartBeats, audioHistory, ripples, nextRippleId, lastCreate, removedRipples,
               mouse, touch, particles, frameStrength, pulseFrames, pulseWindow, canvasPx, size,
               frameSize, lastEvent, releases>>

starVars == <<glowVariant, stars, rngState, starWidth, starHeight, speedRef, colorStageRef,
              isCollapsedRef, starMounted, rafStar, starFrames>>

serviceVars == <<sdkVariant, lastCall, report, rejected, reportCalls, exchange>>

voiceVars == <<simpleEngine, voiceClock, voices>>

fadeVars == <<fadeEngine, fadeCtx, gainNodeRef, fadeActive, fadeMuted, gainClock, timeline,
              transitions>>

appVars == <<appState, selectedTier, timeLeft, totalDuration, archive, currentReport,
             generatedRef, timerRef, intervals, closure, pending, idleTimeouts, session,
             completions, generations>>

vars == <<audioVars, parallaxVars, pulseVars, starVars, serviceVars, voiceVars, fadeVars,
          appVars>>

\* what a specification of one component leaves alone
exceptAudio == <<parallaxVars, pulseVars, starVars, serviceVars, voiceVars, fadeVars, appVars>>
exceptParallax == <<audioVars, pulseVars, starVars, serviceVars, voiceVars, fadeVars, appVars>>
exceptPulse == <<audioVars, parallaxVars, starVars, serviceVars, voiceVars, fadeVars, appVars>>
exceptStars == <<audioVars, parallaxVars, pulseVars, serviceVars, voiceVars, fadeVars, appVars>>
exceptService == <<audioVars, parallaxVars, pulseVars, starVars, voiceVars, fadeVars, appVars>>
exceptVoices == <<audioVars, parallaxVars, pulseVars, starVars, serviceVars, fadeVars, appVars>>
exceptFade == <<audioVars, parallaxVars, pulseVars, starVars, serviceVars, voiceVars, appVars>>
exceptApp == <<audioVars, parallaxVars, pulseVars, starVars, serviceVars, voiceVars, fadeVars>>

-----------------------------------------------------------------------------
(* Bounds of the model *)

\* timer ids handed out before the model stops scheduling new callbacks
MaxTimerId == 19
\* ticks counted per LFO closure
MaxLfoTicks == 1
\* frames of the parallax loop
MaxParallaxFrames == 4
\* frames of the pulse's draw loop
MaxPulseFrames == 11
\* frames of the draw loop in the beat specification
MaxBeatFrames == 5
\* first frames of the history specification, which draw from every snapshot and delta
VariedFrames == 3
\* ripple objects created
MaxRippleId == 6
\* particles of the swarm the model carries (the code creates PARTICLE_COUNT of them
\* and runs the same update on each)
SwarmSize == 2
\* frames of the draw loop in the ripple specification
MaxRippleFrames == 3
\* frames of the draw loop in the interaction specification
MaxForceFrames == 2
\* frames of the star loop
MaxStarFrames == 2
\* calls of generateObservationReport
MaxReportCalls == 2
\* frames an initial ripple may already have lived through
AgedFrames == 202
\* frames of each loop when the three loops run side by side
MaxLoopFrames == 1
\* one-shot voices played
MaxVoices == 2
\* runs of the fade effect
MaxTransitions == 3
\* seconds of audio time in the fade model
MaxGainClock == 4
\* frames of the pulse between its resizes
MaxResizeFrames == 2
\* frames of the pulse over the band snapshots
MaxBandFrames == 2
\* release ripples requested
MaxReleases == 8
\* presses completed between two frames
MaxPresses == 3
\* focus sessions started
MaxSessions == 2

-----------------------------------------------------------------------------
(* Frame scheduling of the browser; n is the number of outstanding requests of a loop *)

\* requestAnimationFrame(callback): one more request is outstanding.
requestAnimationFrame(n) == n + 1

\* Mutant: cancelAnimationFrame cancels nothing.
cancelAnimationFrameIgnored(n) == n

\* cancelAnimationFrame(ref.current): the request made last is dropped if it is still
\* outstanding.
cancelAnimationFrame(n) == IF n > 0 THEN n - 1 ELSE n

-----------------------------------------------------------------------------
(* SpaceMusic: layers *)

NullLayers ==
    [cosmicWind     |-> [source |-> 0, filter |-> 0, gain |-> 0, lfoInterval |-> 0],
     stellarShimmer |-> [interval |-> 0],
     deepVoid       |-> [osc |-> 0, gain |-> 0, lfoInterval |-> 0],
     distantSignal  |-> [interval |-> 0],
     padSequencer   |-> [droneInterval |-> 0, melodyInterval |-> 0]]

\* The engine state the layer functions read and write, as one value.
Eng == [layers |-> layers, timers |-> timers, cleanups |-> cleanups,
        nextTimerId |-> nextTimerId, running |-> running, connected |-> connected,
        nextNodeId |-> nextNodeId, windPhase |-> windPhase, voidPhase |-> voidPhase]

\* window.setTimeout / window.setInterval: a new pending callback, the next id.
setTimer(e, kind) ==
    [e EXCEPT !.timers = @ \cup {[id |-> e.nextTimerId, kind |-> kind]},
              !.nextTimerId = @ + 1]

\* clearTimeout / clearInterval
clearTimer(e, id) ==
    [e EXCEPT !.timers = {t \in @ : t.id # id}]

\* setTimeout(() => { ...disconnect() }, delay) of a voice: the handle is not kept, so
\* the pending cleanups of one voice kind differ only in number.
setCleanup(e, voice) ==
    [e EXCEPT !.cleanups[voice] = @ + 1,
              !.nextTimerId = @ + 1]

TimerKinds == {"windLfo", "voidLfo", "shimmer", "signal", "drone", "melody"}
VoiceKinds == {"shimmer", "signal", "note"}

createCosmicWind(e) ==
    LET n  == e.nextNodeId
        e1 == [e EXCEPT !.layers.cosmicWind.source = n,
                        !.layers.cosmicWind.filter = n + 1,
                        !.layers.cosmicWind.gain = n + 2,
                        !.nextNodeId = n + 3,
                        !.running = @ \cup {[id |-> n, kind |-> "windSource"]},
                        !.connected = @ \cup {n + 2},
                        !.windPhase = 0]
    IN  [setTimer(e1, "windLfo") EXCEPT !.layers.cosmicWind.lfoInterval = e1.nextTimerId]

\* One shimmer voice: its nodes are released by a one-shot timeout.
playShimmer(e) == setCleanup(e, "shimmer")

\* Mutant: scheduleNext plays a shimmer and schedules no successor.
scheduleNextShimmerOnce(e) == playShimmer(e)

\* scheduleNext of startStellarShimmer
scheduleNextShimmer(e) ==
    LET e1 == playShimmer(e)
    IN  [setTimer(e1, "shimmer") EXCEPT !.layers.stellarShimmer.interval = e1.nextTimerId]

startStellarShimmer(e) == scheduleNextShimmer(e)

createDeepVoid(e) ==
    LET n  == e.nextNodeId
        e1 == [e EXCEPT !.layers.deepVoid.osc = n,
                        !.layers.deepVoid.gain = n + 1,
                        !.nextNodeId = n + 2,
                        !.running = @ \cup {[id |-> n, kind |-> "voidOsc"]},
                        !.connected = @ \cup {n + 1},
                        !.voidPhase = 0]
    IN  [setTimer(e1, "voidLfo") EXCEPT !.layers.deepVoid.lfoInterval = e1.nextTimerId]

RECURSIVE pulses(_, _)
pulses(e, k) == IF k = 0 THEN e ELSE pulses(setCleanup(e, "signal"), k - 1)

\* signalType < 0.4: a burst of pulseCount voices; otherwise one voice (tone or noise).
playDistantSignal(e, signalType, pulseCount) ==
    IF signalType = "A" THEN pulses(e, pulseCount) ELSE setCleanup(e, "signal")

\* scheduleNext of startDistantSignal
scheduleNextSignal(e, signalType, pulseCount) ==
    LET e1 == playDistantSignal(e, signalType, pulseCount)
    IN  [setTimer(e1, "signal") EXCEPT !.layers.distantSignal.interval = e1.nextTimerId]

startDistantSignal(e) ==
    [setTimer(e, "signal") EXCEPT !.layers.distantSignal.interval = e.nextTimerId]

\* playNote returns at once without context or master gain
playNote(e, ctx) == IF ctx = "null" THEN e ELSE setCleanup(e, "note")

startPadSequencer(e, ctx) ==
    IF ctx = "null" THEN e
    ELSE LET e1 == playNote(e, ctx)
             e2 == [setTimer(e1, "drone")
                      EXCEPT !.layers.padSequencer.droneInterval = e1.nextTimerId]
             e3 == playNote(e2, ctx)
         IN  [setTimer(e3, "melody")
                EXCEPT !.layers.padSequencer.melodyInterval = e3.nextTimerId]

\* The branch "active && !muted" of the activation effect
startAllLayers(e, ctx) ==
    LET e1 == IF e.layers.cosmicWind.source = 0 THEN createCosmicWind(e) ELSE e
        e2 == IF e1.layers.stellarShimmer.interval = 0 THEN startStellarShimmer(e1) ELSE e1
        e3 == IF e2.layers.deepVoid.osc = 0 THEN createDeepVoid(e2) ELSE e2
        e4 == IF e3.layers.distantSignal.interval = 0 THEN startDistantSignal(e3) ELSE e3
    IN  IF e4.layers.padSequencer.droneInterval = 0 THEN startPadSequencer(e4, ctx) ELSE e4

\* Mutant: the deactivation leaves the wind LFO interval running.
stopWindLfoSkipped(e) == e

stopWindLfo(e) ==
    IF e.layers.cosmicWind.lfoInterval # 0
    THEN [clearTimer(e, e.layers.cosmicWind.lfoInterval)
            EXCEPT !.layers.cosmicWind.lfoInterval = 0]
    ELSE e

stopWindSource(e) ==
    IF e.layers.cosmicWind.source # 0
    THEN [e EXCEPT !.running = {n \in @ : n.id # e.layers.cosmicWind.source},
                   !.layers.cosmicWind.source = 0,
                   !.layers.cosmicWind.filter = 0,
                   !.layers.cosmicWind.gain = 0]
    ELSE e

stopShimmer(e) ==
    IF e.layers.stellarShimmer.interval # 0
    THEN [clearTimer(e, e.layers.stellarShimmer.interval)
            EXCEPT !.layers.stellarShimmer.interval = 0]
    ELSE e

stopVoidLfo(e) ==
    IF e.layers.deepVoid.lfoInterval # 0
    THEN [clearTimer(e, e.layers.deepVoid.lfoInterval)
            EXCEPT !.layers.deepVoid.lfoInterval = 0]
    ELSE e

stopVoidOsc(e) ==
    IF e.layers.deepVoid.osc # 0
    THEN [e EXCEPT !.running = {n \in @ : n.id # e.layers.deepVoid.osc},
                   !.layers.deepVoid.osc = 0,
                   !.layers.deepVoid.gain = 0]
    ELSE e

stopSignal(e) ==
    IF e.layers.distantSignal.interval # 0
    THEN [clearTimer(e, e.layers.distantSignal.interval)
            EXCEPT !.layers.distantSignal.interval = 0]
    ELSE e

stopDrone(e) ==
    IF e.layers.padSequencer.droneInterval # 0
    THEN [clearTimer(e, e.layers.padSequencer.droneInterval)
            EXCEPT !.layers.padSequencer.droneInterval = 0]
    ELSE e

\* Mutant: the melody handle is dropped without clearInterval.
stopMelodyKeepsInterval(e) ==
    [e EXCEPT !.layers.padSequencer.melodyInterval = 0]

stopMelody(e) ==
    IF e.layers.padSequencer.melodyInterval # 0
    THEN [clearTimer(e, e.layers.padSequencer.melodyInterval)
            EXCEPT !.layers.padSequencer.melodyInterval = 0]
    ELSE e

\* The else branch of the activation effect
stopAllLayers(e) ==
    stopMelody(stopDrone(stopSignal(stopVoidOsc(stopVoidLfo(
        stopShimmer(stopWindSource(stopWindLfo(e))))))))

\* The activation / deactivation effect, run with the props a (active) and m (muted)
layerEffect(e, ctx, a, m) ==
    IF ctx = "null" THEN e
    ELSE IF a /\ ~m THEN startAllLayers(e, ctx)
    ELSE stopAllLayers(e)

\* Target of the master-gain ramp the effect starts (1/100); unchanged without context
masterRamp(ctx, a, m, old) ==
    IF ctx = "null" THEN old
    ELSE IF a /\ ~m THEN 50 ELSE 0

-----------------------------------------------------------------------------
(* SpaceMusic: operations *)

SetEng(e) ==
    /\ layers' = e.layers
    /\ timers' = e.timers
    /\ cleanups' = e.cleanups
    /\ nextTimerId' = e.nextTimerId
    /\ nextNodeId' = e.nextNodeId
    /\ running' = e.running
    /\ connected' = e.connected
    /\ windPhase' = e.windPhase
    /\ voidPhase' = e.voidPhase

\* Timer ids one activation can take
ActivationTimers == 9

\* The first click or keydown: initAudio, then both listeners are removed.
\* constructs = FALSE: 'new AudioContextClass()' throws (no implementation, or the
\* constructor fails); nothing catches it, so the statements after it are skipped.
handleInteraction(constructs) ==
    /\ mounted
    /\ listening
    /\ audioCtx' = IF audioCtx = "null" /\ constructs THEN "running" ELSE audioCtx
    /\ analyserCalls' = IF audioCtx = "null" /\ constructs
                          THEN analyserCalls + 1 ELSE analyserCalls
    /\ masterTarget' = IF audioCtx = "null" /\ constructs THEN 0 ELSE masterTarget
    /\ uncaught' = (uncaught \/ (audioCtx = "null" /\ ~constructs))
    /\ listening' = (audioCtx = "null" /\ ~constructs)
    /\ UNCHANGED <<mounted, active, muted, layers, timers, cleanups, nextTimerId, nextNodeId,
                   running, connected, windPhase, voidPhase>>

\* A render with changed (active, muted): the effect of [active, muted] runs.
SetProps(a, m) ==
    /\ mounted
    /\ <<a, m>> # <<active, muted>>
    /\ nextTimerId + ActivationTimers <= MaxTimerId + 1
    /\ active' = a
    /\ muted' = m
    /\ masterTarget' = masterRamp(audioCtx, a, m, masterTarget)
    /\ SetEng(layerEffect(Eng, audioCtx, a, m))
    /\ UNCHANGED <<mounted, listening, audioCtx, analyserCalls, uncaught>>

Pending(kind) == {t \in timers : t.kind = kind}

\* setInterval callbacks of the two LFOs: the interval stays pending.
WindLfoTick ==
    /\ Pending("windLfo") # {}
    /\ windPhase < MaxLfoTicks
    /\ windPhase' = windPhase + 1
    /\ UNCHANGED <<mounted, listening, audioCtx, analyserCalls, uncaught, active, muted, masterTarget,
                   layers, timers, cleanups, nextTimerId, nextNodeId, running, connected, voidPhase>>

VoidLfoTick ==
    /\ Pending("voidLfo") # {}
    /\ voidPhase < MaxLfoTicks
    /\ voidPhase' = voidPhase + 1
    /\ UNCHANGED <<mounted, listening, audioCtx, analyserCalls, uncaught, active, muted, masterTarget,
                   layers, timers, cleanups, nextTimerId, nextNodeId, running, connected, windPhase>>

\* The shimmer timeout fires: scheduleNext plays a shimmer and schedules its successor.
ShimmerFire ==
    \E t \in Pending("shimmer") :
        /\ nextTimerId + 2 <= MaxTimerId + 1
        /\ SetEng(scheduleNextShimmer(clearTimer(Eng, t.id)))
        /\ UNCHANGED <<mounted, listening, audioCtx, analyserCalls, uncaught, active, muted,
                       masterTarget>>

SignalTypes == {"A", "B", "C"}
PulseCounts == 2 .. 4

\* The signal timeout fires: scheduleNext plays one signal and schedules its successor.
SignalFire ==
    \E t \in Pending("signal"), signalType \in SignalTypes, pulseCount \in PulseCounts :
        /\ nextTimerId + pulseCount + 1 <= MaxTimerId + 1
        /\ SetEng(scheduleNextSignal(clearTimer(Eng, t.id), signalType, pulseCount))
        /\ UNCHANGED <<mounted, listening, audioCtx, analyserCalls, uncaught, active, muted,
                       masterTarget>>

\* setInterval callbacks of the pad sequencer: each plays one note.
DroneFire ==
    /\ Pending("drone") # {}
    /\ nextTimerId + 1 <= MaxTimerId + 1
    /\ SetEng(playNote(Eng, audioCtx))
    /\ UNCHANGED <<mounted, listening, audioCtx, analyserCalls, uncaught, active, muted, masterTarget>>

MelodyFire ==
    /\ Pending("melody") # {}
    /\ nextTimerId + 1 <= MaxTimerId + 1
    /\ SetEng(playNote(Eng, audioCtx))
    /\ UNCHANGED <<mounted, listening, audioCtx, analyserCalls, uncaught, active, muted, masterTarget>>

\* The one-shot timeout of a voice fires and disconnects the voice's nodes.
CleanupFire ==
    \E v \in VoiceKinds :
        /\ cleanups[v] > 0
        /\ cleanups' = [cleanups EXCEPT ![v] = @ - 1]
        /\ UNCHANGED <<mounted, listening, audioCtx, analyserCalls, uncaught, active, muted,
                       masterTarget, layers, timers, nextTimerId, nextNodeId, running, connected,
                       windPhase, voidPhase>>

\* Cleanup of the init effect on unmount: the recurring timers are cleared (the refs
\* keep their values) and the context is closed.
unmountTimers(e) ==
    LET l == e.layers
        ids == {l.cosmicWind.lfoInterval, l.stellarShimmer.interval, l.deepVoid.lfoInterval,
                l.distantSignal.interval, l.padSequencer.droneInterval,
                l.padSequencer.melodyInterval} \ {0}
    IN  {t \in e.timers : t.id \notin ids}

\* Mutant: the cleanup of the init effect does not close the context.
UnmountKeepsContext ==
    /\ mounted
    /\ mounted' = FALSE
    /\ listening' = FALSE
    /\ timers' = unmountTimers(Eng)
    /\ UNCHANGED <<audioCtx, analyserCalls, uncaught, active, muted, masterTarget, layers,
                   cleanups, nextTimerId, nextNodeId, running, connected, windPhase, voidPhase>>

Unmount ==
    /\ mounted
    /\ mounted' = FALSE
    /\ listening' = FALSE
    /\ timers' = unmountTimers(Eng)
    /\ audioCtx' = IF audioCtx = "null" THEN "null" ELSE "closed"
    /\ UNCHANGED <<analyserCalls, uncaught, active, muted, masterTarget, layers, cleanups, nextTimerId,
                   nextNodeId, running, connected, windPhase, voidPhase>>

\* The engine before its first interaction, with fixed props (the state the other
\* components' specifications leave it in).
RestAudio ==
    /\ mounted = TRUE
    /\ listening = TRUE
    /\ audioCtx = "null"
    /\ analyserCalls = 0
    /\ uncaught = FALSE
    /\ active = FALSE
    /\ muted = FALSE
    /\ masterTarget = 0
    /\ layers = NullLayers
    /\ timers = {}
    /\ cleanups = [v \in VoiceKinds |-> 0]
    /\ nextTimerId = 1
    /\ nextNodeId = 1
    /\ running = {}
    /\ connected = {}
    /\ windPhase = 0
    /\ voidPhase = 0

InitAudio ==
    /\ mounted = TRUE
    /\ listening = TRUE
    /\ audioCtx = "null"
    /\ analyserCalls = 0
    /\ uncaught = FALSE
    /\ active \in BOOLEAN
    /\ muted \in BOOLEAN
    /\ masterTarget = 0
    /\ layers = NullLayers
    /\ timers = {}
    /\ cleanups = [v \in VoiceKinds |-> 0]
    /\ nextTimerId = 1
    /\ nextNodeId = 1
    /\ running = {}
    /\ connected = {}
    /\ windPhase = 0
    /\ voidPhase = 0

-----------------------------------------------------------------------------
(* useMotionParallax *)

\* Offsets are kept in 1/PScale; options in 1/1000.
PScale == 100000

\* a * num / den, rounded to nearest
MulDiv(a, num, den) == (2 * a * num + den) \div (2 * den)

\* Mutant: the tilt is not clamped.
clampMissing(v) == v

\* Math.max(-1, Math.min(1, v)) on a value in 1/PScale
clampUnit(v) == IF v < -PScale THEN -PScale ELSE IF v > PScale THEN PScale ELSE v

\* innerWidth, innerHeight of the window
innerWidth == 800
innerHeight == 600

\* the angle mapped to +-1, and the neutral beta
maxAngle == 30
betaBaseline == 45

\* "hook": effectivelyEnabled = enabled && !isMobile.
\* "gyro": shouldAnimate = enabled && (!isMobile || isGyroscopePermissionGranted).
shouldAnimate(variant, en, mobile, granted) ==
    IF variant = "hook" THEN en /\ ~mobile
    ELSE en /\ (~mobile \/ granted)

\* the guard of the orientation effect
orientationGuard(variant, en, mobile, supported, granted) ==
    IF variant = "hook" THEN (en /\ ~mobile) /\ supported /\ granted
    ELSE en /\ mobile /\ supported /\ granted

\* the guard of the mouse effect (useMouseInput / enabled && !isMobile)
mouseGuard(variant, en, mobile) == en /\ ~mobile

ZeroOffset == [x |-> 0, y |-> 0]

\* Mutant: the query answers zero while the hook is disabled.
getDisplacementGated(depth10, maxDisplacement) ==
    IF enabled
    THEN [x |-> (currentOffset.x * maxDisplacement * depth10) \div 10,
          y |-> (currentOffset.y * maxDisplacement * depth10) \div 10]
    ELSE ZeroOffset

\* getDisplacement(depth, maxDisplacement): current * maxDisplacement * depth, in 1/PScale
\* pixels; depth is given in 1/10.
getDisplacement(depth10, maxDisplacement) ==
    [x |-> (currentOffset.x * maxDisplacement * depth10) \div 10,
     y |-> (currentOffset.y * maxDisplacement * depth10) \div 10]

\* Number.prototype.toFixed(4) of a value in 1/PScale, in 1/10000
toFixed4(v) == MulDiv(v, 10000, PScale)

\* The three effects re-run after a render: listeners are registered as their guards
\* say; the animation effect cancels its frame request in its cleanup and either
\* resets the CSS variables (disabled) or requests a frame.
RunParallaxEffects(en, granted) ==
    LET was  == shouldAnimate(hookVariant, enabled, isMobile, gyroGranted)
        anim == shouldAnimate(hookVariant, en, isMobile, granted)
    IN  /\ orientationOn' = orientationGuard(hookVariant, en, isMobile, gyroSupported, granted)
        /\ mouseOn' = mouseGuard(hookVariant, en, isMobile)
        /\ rafParallax' = IF anim = was THEN rafParallax
                          ELSE IF anim THEN requestAnimationFrame(rafParallax)
                          ELSE cancelAnimationFrame(rafParallax)
        /\ cssParallax' = IF anim THEN cssParallax ELSE ZeroOffset

\* A render with a changed enabled option.
SetEnabled(b) ==
    /\ b # enabled
    /\ enabled' = b
    /\ RunParallaxEffects(b, gyroGranted)
    /\ UNCHANGED <<hookVariant, isMobile, gyroSupported, gyroGranted, permissionApi, permission, followSpeed,
                   centerAttraction, targetOffset, currentOffset, parallaxFrames>>

PermissionResults == {"granted", "denied", "throws"}

\* requestGyroscopePermission() settles, r being what the platform's requestPermission
\* does.  Where DeviceOrientationEvent is not defined the typeof test on its member
\* throws a ReferenceError outside the try, which rejects the promise of the async
\* function; a state change re-renders.
requestGyroscopePermission(r) ==
    LET outcome == IF ~gyroSupported THEN "rejected"
                   ELSE IF permissionApi THEN (IF r = "granted" THEN "true" ELSE "false")
                   ELSE "true"
        granted == IF outcome = "rejected" THEN gyroGranted ELSE outcome = "true"
    IN  /\ permission' = outcome
        /\ gyroGranted' = granted
        /\ <<permission', gyroGranted'>> # <<permission, gyroGranted>>
        /\ RunParallaxEffects(enabled, granted)
        /\ UNCHANGED <<hookVariant, isMobile, gyroSupported, permissionApi, enabled, followSpeed,
                       centerAttraction, targetOffset, currentOffset, parallaxFrames>>

\* deviceorientation events: beta, gamma in degrees; isNull when a reading is null
OrientationEvents ==
    { [beta |-> 180, gamma |-> -90, isNull |-> FALSE],
      [beta |-> 60, gamma |-> 15, isNull |-> FALSE],
      [beta |-> 0, gamma |-> 10, isNull |-> TRUE] }

handleOrientation(ev) ==
    /\ orientationOn
    /\ targetOffset' =
          IF ev.isNull THEN targetOffset
          ELSE [x |-> clampUnit((ev.gamma * PScale) \div maxAngle),
                y |-> clampUnit(((ev.beta - betaBaseline) * PScale) \div maxAngle)]
    /\ UNCHANGED <<hookVariant, isMobile, gyroSupported, gyroGranted, permissionApi, permission, enabled, followSpeed,
                   centerAttraction, currentOffset, cssParallax, rafParallax, orientationOn,
                   mouseOn, parallaxFrames>>

\* mousemove events inside the viewport: [clientX, clientY]
MouseEvents ==
    { [clientX |-> 0, clientY |-> 0], [clientX |-> innerWidth - 1, clientY |-> innerHeight - 1] }

handleMouseMove(ev) ==
    /\ mouseOn
    /\ targetOffset' = [x |-> ((ev.clientX * PScale) \div innerWidth - PScale \div 2) * 2,
                        y |-> ((ev.clientY * PScale) \div innerHeight - PScale \div 2) * 2]
    /\ UNCHANGED <<hookVariant, isMobile, gyroSupported, gyroGranted, permissionApi, permission, enabled, followSpeed,
                   centerAttraction, currentOffset, cssParallax, rafParallax, orientationOn,
                   mouseOn, parallaxFrames>>

handleMouseLeave ==
    /\ mouseOn
    /\ targetOffset' = ZeroOffset
    /\ UNCHANGED <<hookVariant, isMobile, gyroSupported, gyroGranted, permissionApi, permission, enabled, followSpeed,
                   centerAttraction, currentOffset, cssParallax, rafParallax, orientationOn,
                   mouseOn, parallaxFrames>>

\* current += (target - current) * followSpeed; current *= centerAttraction
follow(cur, tgt) ==
    MulDiv(cur + MulDiv(tgt - cur, followSpeed, 1000), centerAttraction, 1000)

\* One frame of the animation loop.
animate ==
    /\ rafParallax > 0
    /\ parallaxFrames < MaxParallaxFrames
    /\ currentOffset' = [x |-> follow(currentOffset.x, targetOffset.x),
                         y |-> follow(currentOffset.y, targetOffset.y)]
    /\ cssParallax' = [x |-> toFixed4(currentOffset'.x), y |-> toFixed4(currentOffset'.y)]
    /\ parallaxFrames' = parallaxFrames + 1
    /\ rafParallax' = requestAnimationFrame(rafParallax - 1)
    /\ UNCHANGED <<hookVariant, isMobile, gyroSupported, gyroGranted, permissionApi, permission, enabled, followSpeed,
                   centerAttraction, targetOffset, orientationOn, mouseOn>>

\* Option values: the defaults (0.1, 0.998) and a fast, strongly centred pair.
ParallaxOptions == { [followSpeed |-> 100, centerAttraction |-> 998],
                     [followSpeed |-> 900, centerAttraction |-> 500] }

\* The hook after its mount effects have run.
InitParallax ==
    /\ hookVariant \in {"hook", "gyro"}
    /\ isMobile \in BOOLEAN
    /\ gyroSupported \in BOOLEAN
    /\ permissionApi \in {FALSE, gyroSupported}
    /\ gyroGranted = (gyroSupported /\ ~permissionApi)
    /\ permission = "none"
    /\ enabled \in BOOLEAN
    /\ \E o \in ParallaxOptions :
          followSpeed = o.followSpeed /\ centerAttraction = o.centerAttraction
    /\ targetOffset = ZeroOffset
    /\ currentOffset = ZeroOffset
    /\ cssParallax = ZeroOffset
    /\ rafParallax = IF shouldAnimate(hookVariant, enabled, isMobile, gyroGranted)
                     THEN requestAnimationFrame(0) ELSE 0
    /\ orientationOn = orientationGuard(hookVariant, enabled, isMobile, gyroSupported,
                                        gyroGranted)
    /\ mouseOn = mouseGuard(hookVariant, enabled, isMobile)
    /\ parallaxFrames = 0

\* The hook of a desktop page at rest.
RestParallax ==
    /\ hookVariant = "hook"
    /\ isMobile = FALSE
    /\ gyroSupported = FALSE
    /\ gyroGranted = FALSE
    /\ permissionApi = FALSE
    /\ permission = "none"
    /\ enabled = TRUE
    /\ followSpeed = 100
    /\ centerAttraction = 998
    /\ targetOffset = ZeroOffset
    /\ currentOffset = ZeroOffset
    /\ cssParallax = ZeroOffset
    /\ rafParallax = requestAnimationFrame(0)
    /\ orientationOn = FALSE
    /\ mouseOn = TRUE
    /\ parallaxFrames = 0
-----------------------------------------------------------------------------
(* AbyssPulse *)

\* Ripple radii are kept in 1/1000 px, particle and pointer positions in 1/10 px,
\* times in ms, opacities in 1/OScale, levels and strengths in 1/1000.
OScale == 1000000

PARTICLE_COUNT == 70
MAX_RIPPLES == 6

\* Math.min(window.innerWidth, window.innerHeight) * 0.7, in px
sizeOf(w, h) == (7 * (IF w < h THEN w ELSE h)) \div 10

\* that size for the window the component is mounted in
canvasSize == sizeOf(innerWidth, innerHeight)

\* analyser.frequencyBinCount (fftSize 256)
frequencyBinCount == 128

\* Math.sqrt, rounded down
RECURSIVE NewtonSqrt(_, _)
NewtonSqrt(n, x) ==
    LET y == (x + n \div x) \div 2
    IN  IF y >= x THEN x ELSE NewtonSqrt(n, y)

Isqrt(n) == IF n <= 0 THEN 0 ELSE NewtonSqrt(n, n)

RECURSIVE SumSeq(_)
SumSeq(s) == IF s = <<>> THEN 0 ELSE Head(s) + SumSeq(Tail(s))

\* A frequency snapshot (the dataArray filled by getByteFrequencyData): byte s.lo in
\* the bins below s.cut and s.hi in the others.  BandSum is the sum the loop
\* accumulates over the bins from .. to - 1.
BandSum(s, from, to) ==
    LET cut == IF s.cut < from THEN from ELSE IF s.cut > to THEN to ELSE s.cut
    IN  s.lo * (cut - from) + s.hi * (to - cut)

bassEnd == frequencyBinCount \div 10
midEnd == frequencyBinCount \div 2

\* bassSum of a snapshot; bassLevel = bassSum / (bassEnd * 255)
bassSum(s) == BandSum(s, 0, bassEnd)

\* bassLevel in 1/1000
bassLevel(sum) == (sum * 1000) \div (bassEnd * 255)

\* The band the summation loop adds bin i of n to:
\* "if (i < bassEnd) ... else if (i < midEnd) ... else ..."
bandOf(i, n) ==
    IF i < n \div 10 THEN "bass" ELSE IF i < n \div 2 THEN "mid" ELSE "high"

\* Mutant: every band sum is divided by the size of the bass band.
bandLevelsByBassSize(s) ==
    [bass |-> bassLevel(bassSum(s)),
     mid  |-> bassLevel(BandSum(s, bassEnd, midEnd)),
     high |-> bassLevel(BandSum(s, midEnd, frequencyBinCount))]

\* bassLevel, midLevel and highLevel of a snapshot, in 1/1000
bandLevels(s) ==
    [bass |-> bassLevel(bassSum(s)),
     mid  |-> (BandSum(s, bassEnd, midEnd) * 1000) \div ((midEnd - bassEnd) * 255),
     high |-> (BandSum(s, midEnd, frequencyBinCount) * 1000)
                \div ((frequencyBinCount - midEnd) * 255)]

\* Mutant: the history is never shortened.
pushHistoryUnbounded(hist, sum) == Append(hist, sum)

\* history.push(bassLevel); if (length > 10) shift()
pushHistory(hist, sum) ==
    LET h == Append(hist, sum)
    IN  IF Len(h) > 10 THEN Tail(h) ELSE h

\* Mutant: the refractory interval is not checked.
refractoryIgnored(time, last) == TRUE

\* time - lastBeatTimeRef.current > 0.3
refractoryOver(time, last) == time - last > 300

\* bassLevel > avgBass * 1.5 && bassLevel > 0.3 && the refractory interval is over;
\* hist already holds the current sample.  Levels are compared as band sums, which
\* have the common denominator bassEnd * 255.
beatDetected(hist, sum, time, last) ==
    /\ sum * Len(hist) * 2 > SumSeq(hist) * 3
    /\ sum * 10 > 3 * bassEnd * 255
    /\ refractoryOver(time, last)

\* Mutant: the analysis runs without looking at the analyser prop.
analysisUnguarded(on, snap, hist, time, last) ==
    LET h == pushHistory(hist, bassSum(snap))
    IN  [levels |-> bandLevels(snap), history |-> h,
         beat |-> beatDetected(h, bassSum(snap), time, last)]

\* The audio analysis of a frame: "if (analyser) { ... }" around the band levels, the
\* history and the beat condition; without an analyser the levels keep their initial 0.
analysis(on, snap, hist, time, last) ==
    IF on
    THEN LET h == pushHistory(hist, bassSum(snap))
         IN  [levels |-> bandLevels(snap), history |-> h,
              beat |-> beatDetected(h, bassSum(snap), time, last)]
    ELSE [levels |-> [bass |-> 0, mid |-> 0, high |-> 0], history |-> hist, beat |-> FALSE]

\* Mutant: the cap on the number of ripples is not checked.
createRippleUncapped(rs, id, maxRadius, speed) ==
    Append(rs, [radius |-> 0, opacity |-> (6 * OScale) \div 10, speed |-> 30 * speed,
                maxRadius |-> maxRadius, id |-> id])

\* createRipple(maxRadius, speed): nothing is pushed once MAX_RIPPLES ripples are
\* alive.  id is the identity of the pushed object (not a field of the code).
createRipple(rs, id, maxRadius, speed) ==
    IF Len(rs) < MAX_RIPPLES
    THEN Append(rs, [radius |-> 0, opacity |-> (6 * OScale) \div 10, speed |-> 30 * speed,
                     maxRadius |-> maxRadius, id |-> id])
    ELSE rs

\* Mutant: the ripple shrinks.
growRippleBackwards(r, deltaMs) ==
    [r EXCEPT !.radius = @ - (r.speed * deltaMs * 60) \div 1000,
              !.opacity = (@ * 98) \div 100]

\* ripple.radius += ripple.speed * deltaTime * 60; ripple.opacity *= 0.98
growRipple(r, deltaMs) ==
    [r EXCEPT !.radius = @ + (r.speed * deltaMs * 60) \div 1000,
              !.opacity = (@ * 98) \div 100]

\* the test of the filter callback, on the updated ripple
rippleDone(r) == r.radius > r.maxRadius \/ r.opacity < OScale \div 100

RECURSIVE filterRipples(_, _)
filterRipples(rs, deltaMs) ==
    IF rs = <<>> THEN <<>>
    ELSE LET r == growRipple(Head(rs), deltaMs)
             rest == filterRipples(Tail(rs), deltaMs)
         IN  IF rippleDone(r) THEN rest ELSE <<r>> \o rest

RippleIds(rs) == {rs[i].id : i \in 1 .. Len(rs)}

\* maxRadius of a release ripple (size * 0.4) and of a beat ripple (size * 0.35)
releaseMaxRadius == canvasSize * 400
beatMaxRadius == canvasSize * 350

\* Mutant: an active mouse is not overridden by the touch.
interactionMouseFirst(m, t, now, cx, cy) ==
    IF m.active
    THEN [x |-> m.x, y |-> m.y,
          strength |-> IF m.pressing
                       THEN (IF (now - m.pressStartTime) * 2 > 1000 THEN 1000
                             ELSE (now - m.pressStartTime) * 2)
                       ELSE 300]
    ELSE IF t.active
    THEN [x |-> t.x, y |-> t.y,
          strength |-> IF (now - t.startTime) * 2 > 1000 THEN 1000
                       ELSE (now - t.startTime) * 2]
    ELSE [x |-> cx, y |-> cy, strength |-> 0]

\* The interaction point and strength of a frame (touch is read after the mouse).
interaction(m, t, now, cx, cy) ==
    LET fromMouse ==
            IF m.active
            THEN [x |-> m.x, y |-> m.y,
                  strength |-> IF m.pressing
                               THEN (IF (now - m.pressStartTime) * 2 > 1000 THEN 1000
                                     ELSE (now - m.pressStartTime) * 2)
                               ELSE 300]
            ELSE [x |-> cx, y |-> cy, strength |-> 0]
    IN  IF t.active
        THEN [x |-> t.x, y |-> t.y,
              strength |-> IF (now - t.startTime) * 2 > 1000 THEN 1000
                           ELSE (now - t.startTime) * 2]
        ELSE fromMouse

\* baseOrbitRadius of the particles: size * (0.15 + Math.random() * 0.25), in 1/10 px
OrbitRadius == 1000

\* size * 0.3: the radius of influence, in 1/10 px
maxDist == canvasSize * 3

\* force = (1 - dist / maxDist) * interactionStrength * 2 inside
\* "dist < maxDist && dist > 0", and no force outside it; in 1/1000.
interactionForce(dist, strength, reach) ==
    IF dist < reach /\ dist > 0
    THEN ((reach - dist) * strength * 2) \div reach
    ELSE 0

\* cos and sin of the orbit angle, which the model keeps in quarter turns
cosQ(q) == CASE q = 0 -> 1 [] q = 1 -> 0 [] q = 2 -> -1 [] OTHER -> 0
sinQ(q) == CASE q = 0 -> 0 [] q = 1 -> 1 [] q = 2 -> 0 [] OTHER -> -1

\* Mutant: the size grows by a tenth of the audio size in every frame.
particleSizeAdded(p, high) ==
    p.size + ((p.baseSize * (1000 + (high * 3) \div 2)) \div 1000) \div 10

\* audioSize = baseSize * (1 + highLevel * 1.5); size += (audioSize - size) * 0.1;
\* sizes in 1/1000 px, the level in 1/1000
particleSize(p, high) ==
    LET audioSize == (p.baseSize * (1000 + (high * 3) \div 2)) \div 1000
    IN  p.size + ((audioSize - p.size) * 10) \div 100

\* One particle in one frame: orbit, interaction force, spring, damping, velocity, size.
\* dist and force record what the frame computed (dist = -1: no interaction).
moveParticle(p, ia, cx, cy, deltaMs, turn, reach, high) ==
    LET q == (p.orbitAngle + turn) % 4
        targetX == cx + cosQ(q) * p.baseOrbitRadius
        targetY == cy + sinQ(q) * p.baseOrbitRadius
        dx == ia.x - p.x
        dy == ia.y - p.y
        dist == IF ia.strength > 0 THEN Isqrt(dx * dx + dy * dy) ELSE -1
        force == IF ia.strength > 0 THEN interactionForce(dist, ia.strength, reach) ELSE 0
        dirX == IF force > 0 THEN (dx * 1000) \div dist ELSE 0
        dirY == IF force > 0 THEN (dy * 1000) \div dist ELSE 0
        \* swirl: the direction turned by Math.PI / 2
        swirlX == -dirY
        swirlY == dirX
        \* (dir * 0.5 + swirl * 0.5) * force * 50 * deltaTime
        vx1 == p.vx + ((((dirX + swirlX) * force) \div 2000) * deltaMs) \div 2000
        vy1 == p.vy + ((((dirY + swirlY) * force) \div 2000) * deltaMs) \div 2000
        vx2 == vx1 + ((targetX - p.x) * deltaMs) \div 2000
        vy2 == vy1 + ((targetY - p.y) * deltaMs) \div 2000
        vx3 == (vx2 * 95) \div 100
        vy3 == (vy2 * 95) \div 100
    IN  [p EXCEPT !.orbitAngle = q, !.vx = vx3, !.vy = vy3,
                  !.x = @ + vx3, !.y = @ + vy3,
                  !.dist = dist, !.force = force, !.size = particleSize(p, high)]

\* a fade that takes the target opacity to be 1 whatever the active prop says
fadeAlwaysIn(op, isActive) == op + ((OScale - op) * 3) \div 100

\* opacityRef.current += (targetOpacity - opacityRef.current) * 0.03
fade(op, isActive) == op + (((IF isActive THEN OScale ELSE 0) - op) * 3) \div 100

\* The draw callback at timestamp nowMs + dt, with the analyser's snapshot snap and
\* the orbit advancing by turn quarter turns.
draw(dt, snap, turn) ==
    LET currentTime == nowMs + dt
        deltaMs == currentTime - lastTime
        op == fade(opacityRef, pulseActive)
        cx == (size * 10) \div 2 + getDisplacement(10, 12).x \div (PScale \div 10)
        cy == (size * 10) \div 2 + getDisplacement(10, 12).y \div (PScale \div 10)
        a == analysis(analyserOn, snap, audioHistory, currentTime, lastBeatTime)
        hist == a.history
        beat == a.beat
        created == IF beat
                   THEN createRipple(ripples, nextRippleId, size * 350,
                                     800 + a.levels.bass)
                   ELSE ripples
        kept == filterRipples(created, deltaMs)
        ia == interaction(mouse, touch, currentTime, cx, cy)
    IN  /\ rafPulse > 0
        /\ pulseFrames < MaxPulseFrames
        /\ nextRippleId <= MaxRippleId
        /\ nowMs' = currentTime
        /\ lastTime' = currentTime
        /\ opacityRef' = op
        /\ pulseFrames' = pulseFrames + 1
        /\ rafPulse' = requestAnimationFrame(rafPulse - 1)
        /\ IF op < OScale \div 100 /\ ~pulseActive
           THEN UNCHANGED <<levels, audioHistory, lastBeatTime, beatCount, ripples,
                            nextRippleId, lastCreate, removedRipples, particles,
                            frameStrength, frameSize>>
           ELSE /\ levels' = a.levels
                /\ audioHistory' = hist
                /\ lastBeatTime' = IF beat THEN currentTime ELSE lastBeatTime
                /\ beatCount' = IF beat THEN beatCount + 1 ELSE beatCount
                /\ nextRippleId' = IF Len(created) > Len(ripples) THEN nextRippleId + 1
                                   ELSE nextRippleId
                /\ lastCreate' = IF ~beat THEN lastCreate
                                 ELSE IF Len(created) > Len(ripples) THEN "pushed" ELSE "dropped"
                /\ ripples' = kept
                /\ removedRipples' = removedRipples \cup (RippleIds(created) \ RippleIds(kept))
                /\ particles' = [i \in DOMAIN particles |->
                                    moveParticle(particles[i], ia, cx, cy, deltaMs, turn,
                                                 size * 3, a.levels.high)]
                /\ frameStrength' = ia.strength
                /\ frameSize' = size
        /\ UNCHANGED <<pulseMounted, pulseActive, analyserOn, restartBeats, mouse, touch,
                       pulseWindow, canvasPx, size, lastEvent, releases>>

\* a point out of reach of every particle's initial position
FarPoint == [x |-> (canvasSize * 10) \div 2 - OrbitRadius, y |-> (canvasSize * 10) \div 2 - 600]

\* a point 50 px from the first particle's initial position
InsidePoint == [x |-> (canvasSize * 10) \div 2 + OrbitRadius - 300, y |-> (canvasSize * 10) \div 2 + 400]

\* Positions of pointer and touch events, relative to the container, in 1/10 px:
\* on a particle's orbit point, at the radius of influence from it, inside, outside.
PulsePoints ==
    LET c == (canvasSize * 10) \div 2
    IN  { [x |-> c + OrbitRadius, y |-> c],
          [x |-> c + OrbitRadius - maxDist, y |-> c],
          InsidePoint,
          FarPoint }

pulseEventUnchanged ==
    /\ pulseMounted
    /\ UNCHANGED <<pulseMounted, pulseActive, analyserOn, rafPulse, nowMs, lastTime, opacityRef, lastBeatTime,
                   levels, beatCount, restartBeats, audioHistory, particles, frameStrength,
                   pulseFrames, pulseWindow, canvasPx, size, frameSize>>

pulseMouseMove(pt) ==
    /\ mouse' = [mouse EXCEPT !.x = pt.x, !.y = pt.y, !.active = TRUE]
    /\ mouse' # mouse
    /\ lastEvent' = "mousemove"
    /\ pulseEventUnchanged
    /\ UNCHANGED <<touch, ripples, nextRippleId, lastCreate, removedRipples, releases>>

pulseMouseLeave ==
    /\ mouse' = [mouse EXCEPT !.active = FALSE, !.pressing = FALSE]
    /\ mouse' # mouse
    /\ lastEvent' = "mouseleave"
    /\ pulseEventUnchanged
    /\ UNCHANGED <<touch, ripples, nextRippleId, lastCreate, removedRipples, releases>>

pulseMouseDown(pt) ==
    /\ mouse' = [mouse EXCEPT !.x = pt.x, !.y = pt.y, !.pressing = TRUE,
                              !.pressStartTime = nowMs]
    /\ mouse' # mouse
    /\ lastEvent' = "mousedown"
    /\ pulseEventUnchanged
    /\ UNCHANGED <<touch, ripples, nextRippleId, lastCreate, removedRipples, releases>>

\* Mutant: the ripple of a release is requested whether or not anything is held.
releaseUnguarded(isHeld) ==
    /\ nextRippleId <= MaxRippleId
    /\ releases < MaxReleases
    /\ ripples' = createRipple(ripples, nextRippleId, releaseMaxRadius, 1500)
    /\ nextRippleId' = IF Len(ripples') > Len(ripples) THEN nextRippleId + 1
                       ELSE nextRippleId
    /\ lastCreate' = IF Len(ripples') > Len(ripples) THEN "pushed" ELSE "dropped"
    /\ releases' = releases + 1
    /\ UNCHANGED removedRipples

\* The ripple of a release: "if (held) createRipple(size * 0.4, 1.5)"
release(isHeld) ==
    /\ nextRippleId <= MaxRippleId
    /\ releases < MaxReleases
    /\ ripples' = IF isHeld
                  THEN createRipple(ripples, nextRippleId, releaseMaxRadius, 1500)
                  ELSE ripples
    /\ nextRippleId' = IF Len(ripples') > Len(ripples) THEN nextRippleId + 1
                       ELSE nextRippleId
    /\ lastCreate' = IF ~isHeld THEN lastCreate
                     ELSE IF Len(ripples') > Len(ripples) THEN "pushed" ELSE "dropped"
    /\ releases' = IF isHeld THEN releases + 1 ELSE releases
    /\ UNCHANGED removedRipples

pulseMouseUp ==
    /\ release(mouse.pressing)
    /\ mouse' = [mouse EXCEPT !.pressing = FALSE]
    /\ lastEvent' = "mouseup"
    /\ pulseEventUnchanged
    /\ UNCHANGED touch

pulseTouchStart(pt) ==
    /\ touch' = [x |-> pt.x, y |-> pt.y, active |-> TRUE, startTime |-> nowMs]
    /\ touch' # touch
    /\ lastEvent' = "touchstart"
    /\ pulseEventUnchanged
    /\ UNCHANGED <<mouse, ripples, nextRippleId, lastCreate, removedRipples, releases>>

\* touchend and touchcancel
pulseTouchEnd ==
    /\ release(touch.active)
    /\ touch' = [touch EXCEPT !.active = FALSE]
    /\ lastEvent' = "touchend"
    /\ pulseEventUnchanged
    /\ UNCHANGED mouse

\* A render with a changed active or analyser prop: the animation effect is torn down
\* (cancelAnimationFrame) and set up again (lastTime = performance.now(), a new frame
\* request; the canvas is sized and the size captured anew for the window as it is);
\* the refs keep their values.
restartDraw(a, an) ==
    /\ pulseMounted
    /\ <<a, an>> # <<pulseActive, analyserOn>>
    /\ pulseActive' = a
    /\ analyserOn' = an
    /\ lastTime' = nowMs
    /\ rafPulse' = requestAnimationFrame(cancelAnimationFrame(rafPulse))
    /\ restartBeats' = beatCount
    /\ canvasPx' = sizeOf(pulseWindow[1], pulseWindow[2])
    /\ size' = sizeOf(pulseWindow[1], pulseWindow[2])
    /\ UNCHANGED <<pulseMounted, nowMs, opacityRef, lastBeatTime, levels, beatCount, audioHistory, ripples,
                   nextRippleId, lastCreate, removedRipples, mouse, touch, particles, frameStrength,
                   pulseFrames, pulseWindow, frameSize, lastEvent, releases>>

\* initParticles, with the random numbers fixed: particle i starts on its orbit, i
\* quarter turns round, at rest; baseSize = 1 + Math.random() * 2.5 and
\* opacity = 0.3 + Math.random() * 0.5 are in 1/1000.
initParticles(n, sz) ==
    LET c == (sz * 10) \div 2
        orbit == (OrbitRadius * sz) \div canvasSize
    IN  [i \in 1 .. n |->
            [x |-> c + cosQ((i - 1) % 4) * orbit,
             y |-> c + sinQ((i - 1) % 4) * orbit,
             vx |-> 0, vy |-> 0, baseOrbitRadius |-> orbit,
             size |-> 1000 + 1200 * ((i - 1) % 3), baseSize |-> 1000 + 1200 * ((i - 1) % 3),
             opacity |-> 300 + 250 * ((i - 1) % 2),
             orbitAngle |-> (i - 1) % 4, dist |-> -1, force |-> 0]]

\* handleResize of the pulse, the window now being w by h: the canvas is resized and
\* the particles are initialised anew for the new size.  No state of the component
\* changes, so nothing is rendered again and the animation effect is not re-run.
pulseHandleResize(w, h) ==
    /\ pulseMounted
    /\ <<w, h>> # pulseWindow
    /\ pulseWindow' = <<w, h>>
    /\ canvasPx' = sizeOf(w, h)
    /\ particles' = initParticles(SwarmSize, sizeOf(w, h))
    /\ UNCHANGED <<pulseMounted, pulseActive, analyserOn, rafPulse, nowMs, lastTime, opacityRef,
                   lastBeatTime, levels, beatCount, restartBeats, audioHistory, ripples,
                   nextRippleId, lastCreate, removedRipples, mouse, touch, frameStrength,
                   pulseFrames, size, frameSize, lastEvent, releases>>

\* Cleanup of the animation effect on unmount: the frame request is cancelled; the
\* pointer and touch listeners are removed by their own cleanups.
pulseUnmount ==
    /\ pulseMounted
    /\ pulseMounted' = FALSE
    /\ rafPulse' = cancelAnimationFrame(rafPulse)
    /\ UNCHANGED <<pulseActive, analyserOn, nowMs, lastTime, opacityRef, lastBeatTime, levels,
                   beatCount, restartBeats, audioHistory, ripples, nextRippleId, lastCreate,
                   removedRipples, mouse, touch, particles, frameStrength, pulseFrames,
                   pulseWindow, canvasPx, size, frameSize, lastEvent, releases>>

\* ripple.opacity after n frames
RECURSIVE fadedOpacity(_, _)
fadedOpacity(op, n) == IF n = 0 THEN op ELSE fadedOpacity((op * 98) \div 100, n - 1)

\* A release ripple that has been through AgedFrames frames of zero frame delta.
agedRipple ==
    [radius |-> 0, opacity |-> fadedOpacity((6 * OScale) \div 10, AgedFrames),
     speed |-> 30 * 1500, maxRadius |-> releaseMaxRadius, id |-> 0]

\* the lists holding that ripple, if it has survived those frames
AgedRipples == IF rippleDone(agedRipple) THEN {} ELSE {<<agedRipple>>}

\* The component after mount, mountMs after the time origin; rs are the ripples alive.
PulseMounted(a, an, mountMs, rs) ==
    /\ pulseActive = a
    /\ analyserOn = an
    /\ pulseMounted = TRUE
    /\ rafPulse = requestAnimationFrame(0)
    /\ nowMs = mountMs
    /\ lastTime = mountMs
    /\ opacityRef = 0
    /\ lastBeatTime = 0
    /\ levels = [bass |-> 0, mid |-> 0, high |-> 0]
    /\ beatCount = 0
    /\ restartBeats = -1
    /\ audioHistory = <<>>
    /\ ripples = rs
    /\ nextRippleId = 1
    /\ lastCreate = "none"
    /\ removedRipples = {}
    /\ mouse = [x |-> 0, y |-> 0, active |-> FALSE, pressing |-> FALSE, pressStartTime |-> 0]
    /\ touch = [x |-> 0, y |-> 0, active |-> FALSE, startTime |-> 0]
    /\ particles = initParticles(SwarmSize, canvasSize)
    /\ frameStrength = 0
    /\ pulseFrames = 0
    /\ pulseWindow = <<innerWidth, innerHeight>>
    /\ canvasPx = canvasSize
    /\ size = canvasSize
    /\ frameSize = 0
    /\ lastEvent = "none"
    /\ releases = 0

RestPulse == PulseMounted(FALSE, FALSE, 0, <<>>)

\* Snapshots: silence, a bass under the floor of the beat condition, a loud bass.
Silence == [lo |-> 0, hi |-> 0, cut |-> 0]
LoudBass == [lo |-> 255, hi |-> 40, cut |-> 12]
QuietBass == [lo |-> 60, hi |-> 10, cut |-> 20]

-----------------------------------------------------------------------------
(* StarTunnel *)

\* Star coordinates and depths are kept in 1/10 px, speed and Math.random() in 1/1000.

numStars == 800

\* Math.random(): the k-th value drawn from generator state s, in 1/1000
random(s, k) == ((((s + k) * 211 + 1663) % 7875) * 1000) \div 7875

\* the generator state after a frame or a population
nextRandom(s) == (s * 211 + 1663) % 7875

\* The push loop of the mount effect.
populate(s, w, h, glow) ==
    [i \in 1 .. numStars |->
        [x |-> IF glow THEN ((random(s, 4 * i) - 500) * w * 3) \div 100
                       ELSE (random(s, 4 * i) * w) \div 100 - (w * 10) \div 2,
         y |-> IF glow THEN ((random(s, 4 * i + 1) - 500) * h * 3) \div 100
                       ELSE (random(s, 4 * i + 1) * h) \div 100 - (h * 10) \div 2,
         z |-> (random(s, 4 * i + 2) * w) \div 100,
         o |-> random(s, 4 * i + 3)]]

\* "if (starsRef.current.length === 0)": the stars are created on the first run only
starsAfterMount(old, s, w, h, glow) ==
    IF Len(old) = 0 THEN populate(s, w, h, glow) ELSE old

\* currentCollapsed ? 0.1 : currentSpeed * 15 + 0.5 (0.3 and currentSpeed * 25 + 1 in
\* the glow variant), in 1/10 px
speedFactor(collapsed, speed, glow) ==
    IF glow
    THEN (IF collapsed THEN 3 ELSE (speed * 250) \div 1000 + 10)
    ELSE (IF collapsed THEN 1 ELSE (speed * 150) \div 1000 + 5)

\* Mutant: a respawn also draws a new colour slot.
respawnRecoloured(star, w, h, rx, ry) ==
    [x |-> (rx * w) \div 100 - (w * 10) \div 2,
     y |-> (ry * h) \div 100 - (h * 10) \div 2,
     z |-> w * 10,
     o |-> rx]

\* "if (star.z <= 0)": the star is put back at depth width with a new x and y
respawn(star, w, h, rx, ry) ==
    [star EXCEPT !.z = w * 10,
                 !.x = (rx * w) \div 100 - (w * 10) \div 2,
                 !.y = (ry * h) \div 100 - (h * 10) \div 2]

\* the body of the forEach callback that changes the star
moveStar(star, i, factor, w, h, s) ==
    LET moved == [star EXCEPT !.z = @ - factor]
    IN  IF moved.z <= 0
        THEN respawn(moved, w, h, random(s, 2 * i), random(s, 2 * i + 1))
        ELSE moved

\* ctx.arc(x, y, size / 2, ...) throws an IndexSizeError for a negative radius: the
\* star is drawn (its projection is inside the canvas) and lies deeper than the
\* current width, so that size = (1 - z / width) * 4 is negative.
arcThrows(star, w, h) ==
    /\ star.z > w * 10
    /\ -star.z <= 2 * star.x /\ 2 * star.x <= star.z
    /\ -(h * star.z) <= 2 * star.y * w /\ 2 * star.y * w <= h * star.z

\* the index of the first star whose drawing throws; Len(ss) + 1 if none does
firstThrow(ss, w, h) ==
    LET thrown == {i \in 1 .. Len(ss) : arcThrows(ss[i], w, h)}
    IN  IF thrown = {} THEN Len(ss) + 1
        ELSE CHOOSE i \in thrown : \A j \in thrown : i <= j

\* animate: one frame.  An exception thrown while a star is drawn leaves forEach and
\* animate: the stars after it are not moved and no further frame is requested.
starAnimate ==
    LET moved == [i \in 1 .. Len(stars) |->
                    moveStar(stars[i], i,
                             speedFactor(isCollapsedRef, speedRef, glowVariant),
                             starWidth, starHeight, rngState)]
    IN  /\ rafStar > 0
        /\ starFrames < MaxStarFrames
        /\ \E thrower \in {firstThrow(moved, starWidth, starHeight)} :
              /\ stars' = [i \in 1 .. Len(stars) |->
                              IF i <= thrower THEN moved[i] ELSE stars[i]]
              /\ rafStar' = IF thrower > Len(stars) THEN requestAnimationFrame(rafStar - 1)
                            ELSE rafStar - 1
        /\ rngState' = nextRandom(rngState)
        /\ starFrames' = starFrames + 1
        /\ UNCHANGED <<glowVariant, starWidth, starHeight, speedRef, colorStageRef,
                       isCollapsedRef, starMounted>>

\* handleResize: width, height and the canvas size follow the window
handleResize(w, h) ==
    /\ starMounted
    /\ <<w, h>> # <<starWidth, starHeight>>
    /\ starWidth' = w
    /\ starHeight' = h
    /\ UNCHANGED <<glowVariant, stars, rngState, speedRef, colorStageRef, isCollapsedRef,
                   starMounted, rafStar, starFrames>>

\* The effect on [speed, colorStage, isCollapsed]: the refs take the new props.
setStarProps(speed, stage, collapsed) ==
    /\ starMounted
    /\ <<speed, stage, collapsed>> # <<speedRef, colorStageRef, isCollapsedRef>>
    /\ speedRef' = speed
    /\ colorStageRef' = stage
    /\ isCollapsedRef' = collapsed
    /\ UNCHANGED <<glowVariant, stars, rngState, starWidth, starHeight, starMounted, rafStar,
                   starFrames>>

\* Cleanup of the mount effect: the frame request is cancelled, the resize listener
\* removed.
starUnmount ==
    /\ starMounted
    /\ starMounted' = FALSE
    /\ rafStar' = cancelAnimationFrame(rafStar)
    /\ UNCHANGED <<glowVariant, stars, rngState, starWidth, starHeight, speedRef, colorStageRef,
                   isCollapsedRef, starFrames>>

\* The mount effect run on an empty starsRef; s is the state of Math.random().
StarsMounted(glow, s, speed, stage, collapsed) ==
    /\ glowVariant = glow
    /\ starWidth = innerWidth
    /\ starHeight = innerHeight
    /\ stars = starsAfterMount(<<>>, s, innerWidth, innerHeight, glow)
    /\ rngState = nextRandom(s)
    /\ speedRef = speed
    /\ colorStageRef = stage
    /\ isCollapsedRef = collapsed
    /\ starMounted = TRUE
    /\ rafStar = requestAnimationFrame(0)
    /\ starFrames = 0

\* The component before its mount effect has run.
RestStars ==
    /\ glowVariant = FALSE
    /\ starWidth = innerWidth
    /\ starHeight = innerHeight
    /\ stars = <<>>
    /\ rngState = 0
    /\ speedRef = 0
    /\ colorStageRef = "start"
    /\ isCollapsedRef = FALSE
    /\ starMounted = FALSE
    /\ rafStar = 0
    /\ starFrames = 0

StarViewports == {<<innerWidth, innerHeight>>, <<innerWidth \div 2, innerHeight \div 2>>}
\* the props at the start, at full speed, and collapsed
StarProps == { [speed |-> 0, colorStage |-> "start", isCollapsed |-> FALSE],
               [speed |-> 1000, colorStage |-> "end", isCollapsed |-> FALSE],
               [speed |-> 1000, colorStage |-> "end", isCollapsed |-> TRUE] }

-----------------------------------------------------------------------------
(* geminiService: generateObservationReport *)

\* entropy is kept in 1/100.  Dimension codes outside ASCII are spelled out, and the
\* codes of the zh table carry the prefix "zh:".

\* One entry of a fallback table.
entry(code, e, s) == [dimensionCode |-> code, entropy |-> e, stability |-> s]

MOCK_DATA_EN ==
    [micro  |-> << entry("QF-001", 95, "Critical"), entry("PX-117", 87, "Collapsed"),
                   entry("GX-042", 99, "Unstable") >>,
     short  |-> << entry("A-772", 34, "Stable"), entry("KR-256", 45, "Stable"),
                   entry("NV-089", 28, "Stable") >>,
     medium |-> << entry("MX-903", 3, "Stable"), entry("DR-667", 67, "Unstable"),
                   entry("VN-512", 41, "Stable") >>,
     long   |-> << entry("OmegaX-001", 1, "Critical"), entry("Inf-777", 0, "Stable"),
                   entry("Sigma-999", 50, "Stable") >>]

MOCK_DATA_ZH ==
    [micro  |-> << entry("zh:QF-001", 95, "Critical"), entry("zh:PX-117", 87, "Collapsed"),
                   entry("zh:GX-042", 99, "Unstable") >>,
     short  |-> << entry("zh:A-772", 34, "Stable"), entry("zh:KR-256", 45, "Stable"),
                   entry("zh:NV-089", 28, "Stable") >>,
     medium |-> << entry("zh:MX-903", 3, "Stable"), entry("zh:DR-667", 67, "Unstable"),
                   entry("zh:VN-512", 41, "Stable") >>,
     long   |-> << entry("zh:OmegaX-001", 1, "Critical"), entry("zh:Inf-777", 0, "Stable"),
                   entry("zh:Sigma-999", 50, "Stable") >>]

\* MOCK_DATA of the variant that calls the model from the client (no language)
MOCK_DATA ==
    [micro  |-> MOCK_DATA_EN.micro,
     short  |-> MOCK_DATA_EN.short \o << entry("TH-441", 52, "Unstable") >>,
     medium |-> MOCK_DATA_EN.medium \o << entry("PL-288", 15, "Stable") >>,
     long   |-> << entry("OmegaX-001", 1, "Critical"), entry("Inf-777", 0, "Stable"),
                   entry("NULL-X", 22, "Unstable"), entry("Sigma-999", 50, "Stable"),
                   entry("DeltaT-000", -12, "Critical") >>]

\* the table getMockReport reads
mockTable(sdk, language) ==
    IF sdk THEN MOCK_DATA ELSE IF language = "zh" THEN MOCK_DATA_ZH ELSE MOCK_DATA_EN

\* Mutant: a duration of exactly 25 minutes counts as medium.
categoryStrict(duration) ==
    IF duration <= 1 THEN "micro"
    ELSE IF duration < 25 THEN "short"
    ELSE IF duration <= 60 THEN "medium"
    ELSE "long"

\* the bucket of a duration
category(duration) ==
    IF duration <= 1 THEN "micro"
    ELSE IF duration <= 25 THEN "short"
    ELSE IF duration <= 60 THEN "medium"
    ELSE "long"

\* getMockReport(duration, language); rnd is Math.random() in 1/1000
getMockReport(sdk, duration, language, rnd) ==
    LET reports == mockTable(sdk, language)[category(duration)]
        selected == reports[(rnd * Len(reports)) \div 1000 + 1]
    IN  [duration |-> duration, dimensionCode |-> selected.dimensionCode,
         entropy |-> selected.entropy, stability |-> selected.stability,
         isSystemGenerated |-> TRUE]

\* What the call meets: apiKey (process.env.API_KEY is set, read by the client-side
\* variant only), throws (fetch / generateContent rejects), ok (response.ok; a
\* non-empty response.text in the variant), parses (the body is JSON), and the body.
Responses ==
    LET okBody == [error |-> FALSE, dimensionCode |-> "PX-772", entropy |-> 40,
                   stability |-> "Stable"]
    IN
    { [apiKey |-> TRUE, throws |-> FALSE, ok |-> TRUE, parses |-> TRUE, data |-> okBody],
      [apiKey |-> TRUE, throws |-> FALSE, ok |-> TRUE, parses |-> TRUE,
       data |-> [okBody EXCEPT !.entropy = 170, !.stability = "Nominal"]],
      [apiKey |-> FALSE, throws |-> FALSE, ok |-> TRUE, parses |-> TRUE, data |-> okBody],
      [apiKey |-> TRUE, throws |-> TRUE, ok |-> TRUE, parses |-> TRUE, data |-> okBody],
      [apiKey |-> TRUE, throws |-> FALSE, ok |-> FALSE, parses |-> TRUE, data |-> okBody],
      [apiKey |-> TRUE, throws |-> FALSE, ok |-> TRUE, parses |-> FALSE, data |-> okBody],
      [apiKey |-> TRUE, throws |-> FALSE, ok |-> TRUE, parses |-> TRUE,
       data |-> [okBody EXCEPT !.error = TRUE]] }

\* the call ends in the catch block (or, in the variant, in the API-key branch)
failed(sdk, resp) ==
    IF sdk
    THEN ~resp.apiKey \/ resp.throws \/ ~resp.ok \/ ~resp.parses
    ELSE resp.throws \/ ~resp.ok \/ ~resp.parses \/ resp.data.error

\* The value the promise resolves with.
reportOf(sdk, duration, language, resp, rnd) ==
    IF failed(sdk, resp)
    THEN getMockReport(sdk, duration, language, rnd)
    ELSE [duration |-> duration, dimensionCode |-> resp.data.dimensionCode,
          entropy |-> resp.data.entropy, stability |-> resp.data.stability,
          isSystemGenerated |-> FALSE]

\* The body of a handler response: an object with the report fields or with error,
\* or something that is not JSON (json false).  A field the object lacks is "undefined"
\* (entropy -1).
body(json, error, d, code, e, stab) ==
    [json |-> json, error |-> error, duration |-> d, dimensionCode |-> code,
     entropy |-> e, stability |-> stab]

errorBody == body(TRUE, TRUE, 0, "undefined", -1, "undefined")
noBody == body(FALSE, FALSE, 0, "undefined", -1, "undefined")

\* What generateContent does in the handler: it rejects, or answers with a text that
\* is empty, is not JSON, is the JSON null, is an object without some of the fields,
\* or is the object asked for.
ModelOutputs ==
    { [kind |-> "throws"], [kind |-> "empty"], [kind |-> "garbage"], [kind |-> "null"],
      [kind |-> "object", dimensionCode |-> "PX-772", entropy |-> -1, stability |-> "undefined"],
      [kind |-> "object", dimensionCode |-> "A-99", entropy |-> 40, stability |-> "Stable"] }

\* Mutant: the handler goes on without an API key.
handleGeminiRequestNoKeyCheck(req, env, ai) ==
    IF req.method = "OPTIONS" THEN [status |-> 200, body |-> noBody]
    ELSE IF req.method # "POST" THEN [status |-> 405, body |-> noBody]
    ELSE IF ~req.json \/ ai.kind # "object" THEN [status |-> 500, body |-> errorBody]
    ELSE [status |-> 200,
          body |-> body(TRUE, FALSE, req.duration, ai.dimensionCode, ai.entropy, ai.stability)]

\* handleGeminiRequest(request, env), ai being what the model call does: the response
\* to OPTIONS and to other methods than POST, to a missing key, to anything thrown
\* between request.json() and the reading of the parsed text, and to success.
handleGeminiRequest(req, env, ai) ==
    IF req.method = "OPTIONS" THEN [status |-> 200, body |-> noBody]
    ELSE IF req.method # "POST" THEN [status |-> 405, body |-> noBody]
    ELSE IF ~env.apiKey THEN [status |-> 500, body |-> errorBody]
    ELSE IF ~req.json \/ ai.kind # "object" THEN [status |-> 500, body |-> errorBody]
    ELSE [status |-> 200,
          body |-> body(TRUE, FALSE, req.duration, ai.dimensionCode, ai.entropy, ai.stability)]

\* The response as the fetch of generateObservationReport meets it: response.ok is a
\* status of 200 to 299, response.json() fails on a body that is not JSON.
received(r) ==
    [apiKey |-> TRUE, throws |-> FALSE, ok |-> r.status \in 200..299, parses |-> r.body.json,
     data |-> [error |-> r.body.error, dimensionCode |-> r.body.dimensionCode,
               entropy |-> r.body.entropy, stability |-> r.body.stability]]

NoExchange ==
    [request |-> [method |-> "none", json |-> FALSE, duration |-> 0], apiKey |-> FALSE,
     ai |-> "none", response |-> [status |-> 0, body |-> noBody]]

\* A request to /api/gemini and what generateObservationReport makes of the response.
\* The service sends POST with a JSON body; the other requests are those of another
\* caller, answered the same way.
requestReport(req, env, ai, language, rnd) ==
    \E r \in {handleGeminiRequest(req, env, ai)} :
        /\ ~sdkVariant
        /\ reportCalls < MaxReportCalls
        /\ exchange' = [request |-> req, apiKey |-> env.apiKey, ai |-> ai.kind, response |-> r]
        /\ lastCall' = [duration |-> req.duration, language |-> language,
                        failed |-> failed(FALSE, received(r))]
        /\ report' = reportOf(FALSE, req.duration, language, received(r), rnd)
        /\ rejected' = FALSE
        /\ reportCalls' = reportCalls + 1
        /\ UNCHANGED sdkVariant

\* One call of generateObservationReport, from the call to the settled promise.
generateObservationReport(duration, language, resp, rnd) ==
    /\ reportCalls < MaxReportCalls
    /\ (sdkVariant => language = "en")
    /\ lastCall' = [duration |-> duration, language |-> language, failed |-> failed(sdkVariant, resp)]
    /\ report' = reportOf(sdkVariant, duration, language, resp, rnd)
    /\ rejected' = FALSE
    /\ reportCalls' = reportCalls + 1
    /\ UNCHANGED <<sdkVariant, exchange>>

\* The module before the first call.
ServiceLoaded(sdk) ==
    /\ sdkVariant = sdk
    /\ lastCall = [duration |-> 0, language |-> "en", failed |-> FALSE]
    /\ report = [duration |-> 0, dimensionCode |-> "", entropy |-> 0, stability |-> "Stable",
                 isSystemGenerated |-> FALSE]
    /\ rejected = FALSE
    /\ reportCalls = 0
    /\ exchange = NoExchange

RestService == ServiceLoaded(FALSE)

-----------------------------------------------------------------------------
(* One-shot voices: playShimmer, playDistantSignal, playNote *)

\* A voice as it is built: the nodes it connects, the nodes its cleanup timeout
\* disconnects, the time of its scheduled stop and the delay of its cleanup timeout
\* (ms after the call).
shimmerVoice(duration) ==
    [kind |-> "shimmer", nodes |-> {"osc", "filter", "gain", "panner"},
     disconnects |-> {"osc", "filter", "gain", "panner"},
     stop |-> duration + 500, cleanup |-> duration + 1000]

\* Type A: pulse i of a burst with the given pulse interval
pulseVoice(i, pulseInterval) ==
    [kind |-> "pulse", nodes |-> {"osc", "filter", "gain"},
     disconnects |-> {"osc", "filter", "gain"},
     stop |-> i * pulseInterval + 100, cleanup |-> i * pulseInterval + 200]

\* Type B: the descending tone
toneVoice ==
    [kind |-> "tone", nodes |-> {"osc", "filter", "gain"},
     disconnects |-> {"osc", "filter", "gain"}, stop |-> 2000, cleanup |-> 2500]

\* Type C: the noise burst; the source is not stopped, its buffer lasts 0.3 s
noiseVoice ==
    [kind |-> "noise", nodes |-> {"source", "filter", "gain"},
     disconnects |-> {"source", "filter", "gain"}, stop |-> 300, cleanup |-> 500]

\* playNote: two oscillators, filter, envelope gain, delay and feedback gain
noteVoice(simple, duration) ==
    [kind |-> "note",
     nodes |-> {"osc1", "osc2", "filter", "noteGain", "delay", "delayGain"},
     disconnects |-> IF simple THEN {"osc1", "osc2", "filter", "noteGain", "delay"}
                     ELSE {"osc1", "osc2", "filter", "noteGain", "delay", "delayGain"},
     stop |-> IF simple THEN duration + 5000 ELSE duration + 6000,
     cleanup |-> IF simple THEN duration + 5000 ELSE duration + 7000]

\* The voices an engine plays, with the random durations at their ends.
VoicesOf(simple) ==
    IF simple
    THEN {noteVoice(TRUE, 10000), noteVoice(TRUE, 4000), noteVoice(TRUE, 6000)}
    ELSE {shimmerVoice(3000), shimmerVoice(7000), pulseVoice(0, 80), pulseVoice(3, 130),
          toneVoice, noiseVoice, noteVoice(FALSE, 12000), noteVoice(FALSE, 5000)}

\* A voice is played at the current time.
playVoice(v) ==
    /\ Len(voices) < MaxVoices
    /\ voices' = Append(voices, [kind |-> v.kind, connected |-> v.nodes,
                                 disconnects |-> v.disconnects,
                                 stopAt |-> voiceClock + v.stop,
                                 cleanupAt |-> voiceClock + v.cleanup,
                                 cleanedAt |-> -1])
    /\ UNCHANGED <<simpleEngine, voiceClock>>

\* The cleanup timeout of voice i fires, not before its delay has passed.
voiceCleanup(i) ==
    /\ voices[i].cleanedAt < 0
    /\ voiceClock >= voices[i].cleanupAt
    /\ voices' = [voices EXCEPT ![i].connected = @ \ voices[i].disconnects,
                                ![i].cleanedAt = voiceClock]
    /\ UNCHANGED <<simpleEngine, voiceClock>>

\* Time passes, up to the next pending cleanup or beyond it.
voiceTick(late) ==
    LET due == {voices[i].cleanupAt : i \in {j \in 1 .. Len(voices) : voices[j].cleanedAt < 0}}
    IN  /\ due # {}
        /\ \E t \in due :
              /\ t + late > voiceClock
              /\ voiceClock' = t + late
        /\ UNCHANGED <<simpleEngine, voices>>

VoicesInit(simple) ==
    /\ simpleEngine = simple
    /\ voiceClock = 0
    /\ voices = <<>>

RestVoices == VoicesInit(FALSE)

-----------------------------------------------------------------------------
(* Fade of the output gain on activation and deactivation *)

\* AudioParam.cancelScheduledValues(t): the events at or after t are removed
cancelScheduledValues(tl, t) == SelectSeq(tl, LAMBDA ev : ev.time < t)

\* The automation calls of one run of the fade effect, run number n, at time now.
\* SpaceMusic: masterGain.gain.setTargetAtTime(target, ctx.currentTime, tc).
\* AudioAmbience: cancelScheduledValues(now), setValueAtTime(gain.value, now),
\* linearRampToValueAtTime(target, now + 3 or now + 1.5).
fadeCalls(engine, tl, on, now, n) ==
    IF engine = "SpaceMusic"
    THEN Append(tl, [kind |-> "setTarget", time |-> now, by |-> n])
    ELSE cancelScheduledValues(tl, now)
            \o << [kind |-> "setValue", time |-> now, by |-> n],
                  [kind |-> "linearRamp", time |-> now + (IF on THEN 3000 ELSE 1500),
                   by |-> n] >>

\* The first click or keydown.  SpaceMusic creates the context and the master gain;
\* AudioAmbience creates the context only: its gain node is created by a mount
\* effect that has already returned for want of a context and never runs again.
fadeInteraction ==
    /\ ~fadeCtx
    /\ fadeCtx' = TRUE
    /\ gainNodeRef' = (fadeEngine = "SpaceMusic")
    /\ UNCHANGED <<fadeEngine, fadeActive, fadeMuted, gainClock, timeline, transitions>>

\* A render with changed (active, muted): the fade effect runs.
setFadeProps(a, m) ==
    /\ <<a, m>> # <<fadeActive, fadeMuted>>
    /\ transitions < MaxTransitions
    /\ fadeActive' = a
    /\ fadeMuted' = m
    /\ transitions' = IF fadeCtx THEN transitions + 1 ELSE transitions
    /\ timeline' = IF ~gainNodeRef \/ ~fadeCtx THEN timeline
                   ELSE fadeCalls(fadeEngine, timeline, a /\ ~m, gainClock, transitions + 1)
    /\ UNCHANGED <<fadeEngine, fadeCtx, gainNodeRef, gainClock>>

\* ctx.currentTime advances.
fadeTick(dt) ==
    /\ gainClock + dt <= MaxGainClock * 1000
    /\ gainClock' = gainClock + dt
    /\ UNCHANGED <<fadeEngine, fadeCtx, gainNodeRef, fadeActive, fadeMuted, timeline,
                   transitions>>

FadeMounted(engine, a, m) ==
    /\ fadeEngine = engine
    /\ fadeCtx = FALSE
    /\ gainNodeRef = FALSE
    /\ fadeActive = a
    /\ fadeMuted = m
    /\ gainClock = 0
    /\ timeline = <<>>
    /\ transitions = 0

RestFade == FadeMounted("SpaceMusic", FALSE, FALSE)

-----------------------------------------------------------------------------
(* AppContent: the focus session, its countdown and its reports *)

\* currentReport === null
NoReport == [duration |-> 0, session |-> 0, call |-> "none"]

\* FocusTier values offered by the setup view, in minutes
FocusTiers == {1, 25}

\* The report a generateObservationReport promise resolves with: the service echoes
\* the requested duration; session and call say which invocation made it (not fields
\* of the code).
resolved(p) == [duration |-> p.duration, session |-> p.session, call |-> p.call]

\* Mutant: the effect does not keep the id of the interval it sets.
timerEffectLosesId(next, ivs, rep, total) ==
    IF next = appState
    THEN [timerRef |-> timerRef, intervals |-> ivs, closure |-> closure]
    ELSE IF next = "FOCUSING"
    THEN [timerRef |-> timerRef,
          intervals |-> (ivs \ {timerRef}) \cup {timerRef + 1},
          closure |-> [currentReport |-> rep, totalDuration |-> total]]
    ELSE [timerRef |-> timerRef, intervals |-> ivs \ {timerRef}, closure |-> closure]

\* The timer effect of [appState] after a render in state next, ivs being the intervals
\* left by the handler: nothing if appState has not changed; else the cleanup clears
\* the interval of timerRef and the body sets a new one (FOCUSING), whose callback
\* closes over handleComplete of this render (currentReport rep, totalDuration total),
\* or clears timerRef again.
timerEffect(next, ivs, rep, total) ==
    IF next = appState
    THEN [timerRef |-> timerRef, intervals |-> ivs, closure |-> closure]
    ELSE IF next = "FOCUSING"
    THEN [timerRef |-> timerRef + 1,
          intervals |-> (ivs \ {timerRef}) \cup {timerRef + 1},
          closure |-> [currentReport |-> rep, totalDuration |-> total]]
    ELSE [timerRef |-> timerRef, intervals |-> ivs \ {timerRef}, closure |-> closure]

SetTimer(e) ==
    /\ timerRef' = e.timerRef
    /\ intervals' = e.intervals
    /\ closure' = e.closure

\* The condition of the AI trigger effect: FOCUSING, nothing generated yet and
\* progress = 1 - timeLeft / (totalDuration * 60) > 0.8
shouldGenerate(state, generated, left, total) ==
    state = "FOCUSING" /\ ~generated /\ 5 * left < total * 60

\* setSelectedTier from the setup view
selectTier(t) ==
    /\ appState = "IDLE"
    /\ t # selectedTier
    /\ selectedTier' = t
    /\ UNCHANGED <<appState, timeLeft, totalDuration, archive, currentReport, generatedRef,
                   timerRef, intervals, closure, pending, idleTimeouts, session, completions,
                   generations>>

\* startFocus, from the start button of the setup view, and the render after it
startFocus ==
    /\ appState = "IDLE"
    /\ session < MaxSessions
    /\ totalDuration' = selectedTier
    /\ timeLeft' = selectedTier * 60
    /\ appState' = "FOCUSING"
    /\ generatedRef' = FALSE
    /\ currentReport' = NoReport
    /\ SetTimer(timerEffect("FOCUSING", intervals, NoReport, selectedTier))
    /\ session' = session + 1
    /\ completions' = 0
    /\ generations' = 0
    /\ UNCHANGED <<selectedTier, archive, pending, idleTimeouts>>

\* A tick of countdown interval i: the updater of setTimeLeft, which calls
\* handleComplete on prev <= 1, and the effects of the render after it.
\* handleComplete is the one the interval closed over: it reads that render's
\* currentReport and totalDuration.
tick(i) ==
    /\ i \in intervals
    /\ IF timeLeft <= 1
       THEN /\ timeLeft' = 0
            /\ completions' = completions + 1
            /\ appState' = IF closure.currentReport # NoReport THEN "REPORT" ELSE "PROCESSING"
            /\ pending' = IF closure.currentReport # NoReport THEN pending
                          ELSE pending \cup {[duration |-> closure.totalDuration,
                                              session |-> session, call |-> "final"]}
            /\ generations' = IF closure.currentReport # NoReport THEN generations
                              ELSE generations + 1
            /\ SetTimer(timerEffect(appState', intervals \ {timerRef}, currentReport,
                                    totalDuration))
            /\ UNCHANGED generatedRef
       ELSE /\ timeLeft' = timeLeft - 1
            /\ generatedRef' =
                    (generatedRef
                        \/ shouldGenerate(appState, generatedRef, timeLeft', totalDuration))
            /\ pending' = IF shouldGenerate(appState, generatedRef, timeLeft', totalDuration)
                          THEN pending \cup {[duration |-> totalDuration, session |-> session,
                                              call |-> "pre"]}
                          ELSE pending
            /\ generations' = IF shouldGenerate(appState, generatedRef, timeLeft', totalDuration)
                              THEN generations + 1 ELSE generations
            /\ UNCHANGED <<appState, completions, timerRef, intervals, closure>>
    /\ UNCHANGED <<selectedTier, totalDuration, archive, currentReport, idleTimeouts, session>>

\* A generateObservationReport promise is fulfilled: the then-callback of the AI
\* trigger effect sets the report, that of handleComplete also the REPORT state.
resolveReport(p) ==
    /\ p \in pending
    /\ pending' = pending \ {p}
    /\ currentReport' = resolved(p)
    /\ appState' = IF p.call = "final" THEN "REPORT" ELSE appState
    /\ SetTimer(timerEffect(appState', intervals, currentReport', totalDuration))
    /\ UNCHANGED <<selectedTier, timeLeft, totalDuration, archive, generatedRef, idleTimeouts,
                   session, completions, generations>>

\* abortFocus, from the abort button of the focusing view
abortFocus ==
    /\ appState = "FOCUSING"
    /\ appState' = "SIGNAL_LOST"
    /\ idleTimeouts' = idleTimeouts + 1
    /\ SetTimer(timerEffect("SIGNAL_LOST", intervals \ {timerRef}, currentReport,
                            totalDuration))
    /\ UNCHANGED <<selectedTier, timeLeft, totalDuration, archive, currentReport, generatedRef,
                   pending, session, completions, generations>>

\* The timeout of abortFocus fires after 4 s.
idleTimeout ==
    /\ idleTimeouts > 0
    /\ idleTimeouts' = idleTimeouts - 1
    /\ appState' = "IDLE"
    /\ SetTimer(timerEffect("IDLE", intervals, currentReport, totalDuration))
    /\ UNCHANGED <<selectedTier, timeLeft, totalDuration, archive, currentReport, generatedRef,
                   pending, session, completions, generations>>

\* Mutant: the report is added at the end of the archive.
closeReportAppends ==
    /\ appState = "REPORT"
    /\ currentReport # NoReport
    /\ archive' = archive \o <<currentReport>>
    /\ appState' = "IDLE"
    /\ currentReport' = NoReport
    /\ SetTimer(timerEffect("IDLE", intervals, NoReport, totalDuration))
    /\ UNCHANGED <<selectedTier, timeLeft, totalDuration, generatedRef, pending, idleTimeouts,
                   session, completions, generations>>

\* closeReport, from the report card, which is shown in REPORT with a report
closeReport ==
    /\ appState = "REPORT"
    /\ currentReport # NoReport
    /\ archive' = <<currentReport>> \o archive
    /\ appState' = "IDLE"
    /\ currentReport' = NoReport
    /\ SetTimer(timerEffect("IDLE", intervals, NoReport, totalDuration))
    /\ UNCHANGED <<selectedTier, timeLeft, totalDuration, generatedRef, pending, idleTimeouts,
                   session, completions, generations>>

\* The archive view is opened from the setup view and left by its back button.
showArchive(open) ==
    /\ appState = (IF open THEN "IDLE" ELSE "ARCHIVE")
    /\ appState' = (IF open THEN "ARCHIVE" ELSE "IDLE")
    /\ SetTimer(timerEffect(appState', intervals, currentReport, totalDuration))
    /\ UNCHANGED <<selectedTier, timeLeft, totalDuration, archive, currentReport, generatedRef,
                   pending, idleTimeouts, session, completions, generations>>

\* The component after mount; saved is the archive found in localStorage.
AppMounted(saved) ==
    /\ appState = "IDLE"
    /\ selectedTier = 25
    /\ timeLeft = 0
    /\ totalDuration = 0
    /\ archive = saved
    /\ currentReport = NoReport
    /\ generatedRef = FALSE
    /\ timerRef = 0
    /\ intervals = {}
    /\ closure = [currentReport |-> NoReport, totalDuration |-> 0]
    /\ pending = {}
    /\ idleTimeouts = 0
    /\ session = 0
    /\ completions = 0
    /\ generations = 0

RestApp == AppMounted(<<>>)

-----------------------------------------------------------------------------
(* Specifications *)

NextAudio ==
    \/ (\E constructs \in BOOLEAN : handleInteraction(constructs)) /\ UNCHANGED exceptAudio
    \/ (\E a \in BOOLEAN, m \in BOOLEAN : SetProps(a, m)) /\ UNCHANGED exceptAudio
    \/ WindLfoTick /\ UNCHANGED exceptAudio
    \/ VoidLfoTick /\ UNCHANGED exceptAudio
    \/ ShimmerFire /\ UNCHANGED exceptAudio
    \/ SignalFire /\ UNCHANGED exceptAudio
    \/ DroneFire /\ UNCHANGED exceptAudio
    \/ MelodyFire /\ UNCHANGED exceptAudio
    \/ CleanupFire /\ UNCHANGED exceptAudio
    \/ Unmount /\ UNCHANGED exceptAudio

InitSpecAudio == InitAudio /\ RestParallax /\ RestPulse /\ RestStars /\ RestService /\ RestVoices /\ RestFade /\ RestApp

SpecAudio == InitSpecAudio /\ [][NextAudio]_vars

\* The cadence of the two transient layers: prop changes and the shimmer and signal
\* timeouts.  A pending browser timeout fires after its delay, hence the weak
\* fairness of the two timeout callbacks.
NextCadence ==
    \/ handleInteraction(TRUE) /\ UNCHANGED exceptAudio
    \/ (\E a \in BOOLEAN, m \in BOOLEAN : SetProps(a, m)) /\ UNCHANGED exceptAudio
    \/ ShimmerFire /\ UNCHANGED exceptAudio
    \/ SignalFire /\ UNCHANGED exceptAudio
    \/ Unmount /\ UNCHANGED exceptAudio

SpecCadence ==
    /\ InitSpecAudio
    /\ [][NextCadence]_vars
    /\ WF_vars(ShimmerFire /\ UNCHANGED exceptAudio)
    /\ WF_vars(SignalFire /\ UNCHANGED exceptAudio)

NextParallax ==
    \/ (\E b \in BOOLEAN : SetEnabled(b)) /\ UNCHANGED exceptParallax
    \/ (\E r \in PermissionResults : requestGyroscopePermission(r)) /\ UNCHANGED exceptParallax
    \/ (\E ev \in OrientationEvents : handleOrientation(ev)) /\ UNCHANGED exceptParallax
    \/ (\E ev \in MouseEvents : handleMouseMove(ev)) /\ UNCHANGED exceptParallax
    \/ handleMouseLeave /\ UNCHANGED exceptParallax
    \/ animate /\ UNCHANGED exceptParallax

InitSpecParallax == InitParallax /\ RestAudio /\ RestPulse /\ RestStars /\ RestService /\ RestVoices /\ RestFade /\ RestApp

\* Ripples: mouse releases and beats under short frame deltas.
RippleFrames == { [dt |-> 0, snap |-> Silence], [dt |-> 32, snap |-> Silence],
                  [dt |-> 32, snap |-> LoudBass] }

NextRipple ==
    \/ (\E f \in RippleFrames : pulseFrames < MaxRippleFrames /\ draw(f.dt, f.snap, 0))
            /\ UNCHANGED exceptPulse
    \/ pulseMouseDown(FarPoint) /\ UNCHANGED exceptPulse
    \/ pulseMouseUp /\ UNCHANGED exceptPulse
    \/ pulseMouseLeave /\ UNCHANGED exceptPulse

InitSpecRipple ==
    /\ \E an \in BOOLEAN, rs \in {<<>>} \cup AgedRipples : PulseMounted(TRUE, an, 1000, rs)
    /\ RestAudio
    /\ RestParallax
    /\ RestStars
    /\ RestService /\ RestVoices /\ RestFade /\ RestApp

SpecRipple == InitSpecRipple /\ [][NextRipple]_vars

\* Beats: bass patterns under frame deltas on both sides of the refractory interval,
\* with restarts of the draw loop.
BeatDeltas == {300, 400}

NextBeat ==
    \/ (\E dt \in BeatDeltas, snap \in {Silence, LoudBass} :
            pulseFrames < MaxBeatFrames /\ draw(dt, snap, 0))
            /\ UNCHANGED exceptPulse
    \/ (\E a \in BOOLEAN, an \in BOOLEAN : restartDraw(a, an)) /\ UNCHANGED exceptPulse

InitSpecBeat ==
    PulseMounted(TRUE, TRUE, 0, <<>>) /\ RestAudio /\ RestParallax /\ RestStars /\ RestService /\ RestVoices /\ RestFade /\ RestApp

SpecBeat == InitSpecBeat /\ [][NextBeat]_vars

\* The rolling history: enough frames to fill it.  The first frames draw from every
\* snapshot and both deltas, the later ones from silence and loud bass 0.4 s apart.
HistoryFrames ==
    IF pulseFrames < VariedFrames
    THEN [dt : BeatDeltas, snap : {Silence, QuietBass, LoudBass}]
    ELSE [dt : {400}, snap : {Silence, LoudBass}]

NextHistory ==
    (\E f \in HistoryFrames : draw(f.dt, f.snap, 0)) /\ UNCHANGED exceptPulse

InitSpecHistory ==
    PulseMounted(TRUE, TRUE, 0, <<>>) /\ RestAudio /\ RestParallax /\ RestStars /\ RestService /\ RestVoices /\ RestFade /\ RestApp

SpecHistory == InitSpecHistory /\ [][NextHistory]_vars

\* Interaction: pointer and touch near the particles, half a second a frame; nothing
\* is released.
ForceDeltas == {500}

NextForce ==
    \/ (\E dt \in ForceDeltas, turn \in {0, 1} :
            pulseFrames < MaxForceFrames /\ draw(dt, Silence, turn))
            /\ UNCHANGED exceptPulse
    \/ (\E pt \in PulsePoints : pulseMouseMove(pt)) /\ UNCHANGED exceptPulse
    \/ pulseMouseDown([x |-> mouse.x, y |-> mouse.y]) /\ UNCHANGED exceptPulse
    \/ pulseMouseLeave /\ UNCHANGED exceptPulse
    \/ pulseTouchStart(InsidePoint) /\ UNCHANGED exceptPulse

InitSpecForce ==
    PulseMounted(TRUE, FALSE, 1000, <<>>) /\ RestAudio /\ RestParallax /\ RestStars /\ RestService /\ RestVoices /\ RestFade /\ RestApp

SpecForce == InitSpecForce /\ [][NextForce]_vars

\* Presses: pointer and touch presses, completed or abandoned, between frames.
NextRelease ==
    \/ (pulseFrames < MaxLoopFrames /\ draw(32, Silence, 0)) /\ UNCHANGED exceptPulse
    \/ pulseMouseMove(FarPoint) /\ UNCHANGED exceptPulse
    \/ pulseMouseDown(FarPoint) /\ UNCHANGED exceptPulse
    \/ (releases < MaxPresses /\ pulseMouseUp) /\ UNCHANGED exceptPulse
    \/ pulseMouseLeave /\ UNCHANGED exceptPulse
    \/ pulseTouchStart(InsidePoint) /\ UNCHANGED exceptPulse
    \/ (releases < MaxPresses /\ pulseTouchEnd) /\ UNCHANGED exceptPulse

InitSpecRelease ==
    PulseMounted(TRUE, FALSE, 1000, <<>>) /\ RestAudio /\ RestParallax /\ RestStars /\ RestService /\ RestVoices /\ RestFade /\ RestApp

SpecRelease == InitSpecRelease /\ [][NextRelease]_vars

\* Band levels: frames over snapshots of two byte levels that change at a band edge,
\* next to one, or not at all.
BandSnapshots ==
    [lo : {0, 1, 128, 255}, hi : {0, 1, 128, 255},
     cut : {0, bassEnd, bassEnd + 1, midEnd - 1, midEnd, frequencyBinCount}]

NextBands ==
    (\E snap \in BandSnapshots : pulseFrames < MaxBandFrames /\ draw(400, snap, 0))
        /\ UNCHANGED exceptPulse

InitSpecBands ==
    PulseMounted(TRUE, TRUE, 0, <<>>) /\ RestAudio /\ RestParallax /\ RestStars /\ RestService /\ RestVoices /\ RestFade /\ RestApp

SpecBands == InitSpecBands /\ [][NextBands]_vars

\* Resizes of the window between the frames of the pulse, with restarts of the draw
\* loop.
PulseViewports == {<<innerWidth, innerHeight>>, <<innerWidth \div 2, innerHeight \div 2>>,
                   <<innerHeight, innerWidth>>}

NextResize ==
    \/ (\E dt \in {16, 32}, turn \in {0, 1} :
            pulseFrames < MaxResizeFrames /\ draw(dt, Silence, turn))
            /\ UNCHANGED exceptPulse
    \/ (\E v \in PulseViewports : pulseHandleResize(v[1], v[2])) /\ UNCHANGED exceptPulse
    \/ (\E a \in BOOLEAN, an \in BOOLEAN : restartDraw(a, an)) /\ UNCHANGED exceptPulse

InitSpecResize ==
    PulseMounted(TRUE, FALSE, 1000, <<>>) /\ RestAudio /\ RestParallax /\ RestStars /\ RestService /\ RestVoices /\ RestFade /\ RestApp

SpecResize == InitSpecResize /\ [][NextResize]_vars

NextStars ==
    \/ starAnimate /\ UNCHANGED exceptStars
    \/ (\E v \in StarViewports : handleResize(v[1], v[2])) /\ UNCHANGED exceptStars
    \/ (\E p \in StarProps : setStarProps(p.speed, p.colorStage, p.isCollapsed))
            /\ UNCHANGED exceptStars

InitSpecStars ==
    /\ \E glow \in BOOLEAN, s \in {1, 2} : StarsMounted(glow, s, 0, "start", FALSE)
    /\ RestAudio
    /\ RestParallax
    /\ RestPulse
    /\ RestService /\ RestVoices /\ RestFade /\ RestApp

SpecStars == InitSpecStars /\ [][NextStars]_vars

NextService ==
    (\E d \in {0, 1, 2, 25, 26, 60, 61, 90}, l \in {"en", "zh"}, resp \in Responses,
        rnd \in {0, 400, 999} :
        generateObservationReport(d, l, resp, rnd)) /\ UNCHANGED exceptService

InitSpecService ==
    /\ \E sdk \in BOOLEAN : ServiceLoaded(sdk)
    /\ RestVoices /\ RestFade /\ RestApp
    /\ RestAudio
    /\ RestParallax
    /\ RestPulse
    /\ RestStars

SpecService == InitSpecService /\ [][NextService]_vars

SpecParallax == InitSpecParallax /\ [][NextParallax]_vars

NextVoices ==
    \/ (\E v \in VoicesOf(simpleEngine) : playVoice(v)) /\ UNCHANGED exceptVoices
    \/ (\E i \in 1 .. Len(voices) : voiceCleanup(i)) /\ UNCHANGED exceptVoices
    \/ (\E late \in {0, 250} : voiceTick(late)) /\ UNCHANGED exceptVoices

InitSpecVoices ==
    /\ \E simple \in BOOLEAN : VoicesInit(simple)
    /\ RestAudio
    /\ RestParallax
    /\ RestPulse
    /\ RestStars
    /\ RestService
    /\ RestFade /\ RestApp

SpecVoices == InitSpecVoices /\ [][NextVoices]_vars

NextFade ==
    \/ fadeInteraction /\ UNCHANGED exceptFade
    \/ (\E a \in BOOLEAN, m \in BOOLEAN : setFadeProps(a, m)) /\ UNCHANGED exceptFade
    \/ (\E dt \in {1000, 2000} : fadeTick(dt)) /\ UNCHANGED exceptFade

InitSpecFade ==
    /\ \E engine \in {"SpaceMusic", "AudioAmbience"}, a \in BOOLEAN :
          FadeMounted(engine, a, FALSE)
    /\ RestAudio
    /\ RestParallax
    /\ RestPulse
    /\ RestStars
    /\ RestService
    /\ RestVoices
    /\ RestApp

SpecFade == InitSpecFade /\ [][NextFade]_vars

\* Focus sessions: started, counted down, aborted or completed, with the report
\* promises settling at any moment, over an archive that is empty or holds a report.
\* The abort button is pressed right after the start, on either side of the 80%
\* mark of each tier, or in the last second.
AbortMoments == {1, 11, 12, 60, 299, 300, 1500}

SavedReport == [duration |-> 60, session |-> 0, call |-> "final"]

NextApp ==
    \/ (\E t \in FocusTiers : selectTier(t)) /\ UNCHANGED exceptApp
    \/ startFocus /\ UNCHANGED exceptApp
    \/ (\E i \in intervals : tick(i)) /\ UNCHANGED exceptApp
    \/ (\E p \in pending : resolveReport(p)) /\ UNCHANGED exceptApp
    \/ timeLeft \in AbortMoments /\ abortFocus /\ UNCHANGED exceptApp
    \/ idleTimeout /\ UNCHANGED exceptApp
    \/ closeReport /\ UNCHANGED exceptApp
    \/ (\E open \in BOOLEAN : showArchive(open)) /\ UNCHANGED exceptApp

InitSpecApp ==
    /\ \E saved \in {<<>>, <<SavedReport>>} : AppMounted(saved)
    /\ RestAudio
    /\ RestParallax
    /\ RestPulse
    /\ RestStars
    /\ RestService
    /\ RestVoices
    /\ RestFade

SpecApp == InitSpecApp /\ [][NextApp]_vars

\* The three frame loops side by side, with their teardowns: the parallax hook of a
\* desktop page being enabled and disabled, the star field resized and unmounted, the
\* pulse entity restarted and unmounted.
NextFrames ==
    \/ (parallaxFrames < MaxLoopFrames /\ animate) /\ UNCHANGED exceptParallax
    \/ (\E b \in BOOLEAN : SetEnabled(b)) /\ UNCHANGED exceptParallax
    \/ (starFrames < MaxLoopFrames /\ starAnimate) /\ UNCHANGED exceptStars
    \/ (\E v \in StarViewports : handleResize(v[1], v[2])) /\ UNCHANGED exceptStars
    \/ starUnmount /\ UNCHANGED exceptStars
    \/ (pulseFrames < MaxLoopFrames /\ draw(16, Silence, 0)) /\ UNCHANGED exceptPulse
    \/ (\E a \in BOOLEAN : restartDraw(a, analyserOn)) /\ UNCHANGED exceptPulse
    \/ pulseUnmount /\ UNCHANGED exceptPulse

InitSpecFrames ==
    /\ InitParallax /\ ~isMobile /\ gyroSupported /\ gyroGranted /\ followSpeed = 100
    /\ hookVariant = "hook"
    /\ StarsMounted(FALSE, 1, 0, "start", FALSE)
    /\ PulseMounted(TRUE, FALSE, 1000, <<>>)
    /\ RestAudio
    /\ RestService /\ RestVoices /\ RestFade /\ RestApp

SpecFrames == InitSpecFrames /\ [][NextFrames]_vars

-----------------------------------------------------------------------------
(* geminiService: properties *)

\* the entries of a list
Entries(reports) == {reports[i] : i \in 1 .. Len(reports)}

\* Requests to the /api/gemini handler, with and without key, and every model output.
Requests ==
    { [method |-> m, json |-> j, duration |-> d] :
        m \in {"POST", "GET", "OPTIONS"}, j \in BOOLEAN, d \in {1, 25, 60, 120} }

NextHandler ==
    (\E req \in Requests, key \in BOOLEAN, ai \in ModelOutputs, l \in {"en", "zh"},
        rnd \in {0, 999} :
        requestReport(req, [apiKey |-> key], ai, l, rnd)) /\ UNCHANGED exceptService

InitSpecHandler ==
    /\ ServiceLoaded(FALSE)
    /\ RestVoices /\ RestFade /\ RestApp
    /\ RestAudio
    /\ RestParallax
    /\ RestPulse
    /\ RestStars

SpecHandler == InitSpecHandler /\ [][NextHandler]_vars

\* C11: when report generation fails, for every duration d and language L the report
\* is one of the entries of L's fallback table for the bucket of d (d <= 1 micro,
\* 1 < d <= 25 short, 25 < d <= 60 medium, d > 60 long), with isSystemGenerated true
\* and duration d.  The buckets are written out here, independently of category.
C11_FallbackFromBucket ==
    (reportCalls > 0 /\ lastCall.failed) =>
        LET d == lastCall.duration
            table == mockTable(sdkVariant, lastCall.language)
            bucket == IF d <= 1 THEN table.micro
                      ELSE IF 1 < d /\ d <= 25 THEN table.short
                      ELSE IF 25 < d /\ d <= 60 THEN table.medium
                      ELSE table.long
        IN  /\ report.isSystemGenerated
            /\ report.duration = d
            /\ \E e \in Entries(bucket) :
                    /\ report.dimensionCode = e.dimensionCode
                    /\ report.entropy = e.entropy
                    /\ report.stability = e.stability

\* a failed call for 90 minutes in zh has produced an entry of the zh long bucket
C11_Witness ==
    /\ lastCall = [duration |-> 90, language |-> "zh", failed |-> TRUE]
    /\ report.dimensionCode = "zh:Sigma-999"
    /\ report.isSystemGenerated

\* C12: generateObservationReport never rejects, and when fetch throws, the status is
\* not OK or the body carries an error field it resolves with a report whose stability
\* is one of Stable, Unstable, Critical, Collapsed and whose entropy lies in [0, 1].
C12_FallbackReportValid ==
    /\ ~rejected
    /\ (reportCalls > 0 /\ lastCall.failed) =>
            /\ report.stability \in {"Stable", "Unstable", "Critical", "Collapsed"}
            /\ 0 <= report.entropy
            /\ report.entropy <= 100

-----------------------------------------------------------------------------
(* AbyssPulse: properties *)

RippleOf(rs, id) == CHOOSE i \in 1 .. Len(rs) : rs[i].id = id

\* C5: under non-negative frame deltas a ripple's radius never decreases and its
\* opacity never increases from frame to frame; a ripple is dropped by the first frame
\* whose update takes its radius above maxRadius or its opacity below 0.01, so no
\* ripple that is alive has crossed either limit; a dropped ripple is dropped once
\* and is never alive again.
C5_RippleLife ==
    /\ [](\A i \in 1 .. Len(ripples) :
            /\ ripples[i].radius <= ripples[i].maxRadius
            /\ ripples[i].opacity >= OScale \div 100
            /\ ripples[i].id \notin removedRipples
            /\ \A j \in 1 .. Len(ripples) : ripples[j].id = ripples[i].id => j = i)
    /\ [][\A i \in 1 .. Len(ripples) :
            LET r == ripples[i]
                delta == nowMs' - lastTime
            IN  IF r.id \in RippleIds(ripples')
                THEN LET n == ripples'[RippleOf(ripples', r.id)]
                     IN  /\ n.radius >= r.radius
                         /\ n.opacity <= r.opacity
                         /\ n.speed = r.speed
                         /\ n.maxRadius = r.maxRadius
                ELSE /\ r.id \in removedRipples'
                     /\ \/ r.radius + (r.speed * delta * 60) \div 1000 > r.maxRadius
                        \/ (r.opacity * 98) \div 100 < OScale \div 100]_vars

\* one ripple has been dropped for its opacity, one for its radius, and one is
\* alive and has grown
C5_Witness ==
    /\ {0, 1} \subseteq removedRipples
    /\ \E i \in 1 .. Len(ripples) : ripples[i].radius > 0 /\ ripples[i].opacity < (6 * OScale) \div 10

\* C6: two consecutive beat firings are more than 0.3 s apart, whatever the bass
\* samples and frame timestamps, and also when the draw loop was restarted between
\* them: a step that fires a beat happens at a frame time more than 300 ms after
\* the time of the last firing, and records that frame time.
C6_BeatRefractory ==
    [][beatCount' # beatCount =>
            /\ nowMs' - lastBeatTime > 300
            /\ lastBeatTime' = nowMs']_vars

\* two beats have fired, and the draw loop was restarted between them
C6_Witness == beatCount = 2 /\ restartBeats = 1

\* C9: with interaction strength 1 a particle at distance 0 from the interaction
\* point gets the maximum force (1 - 0) * 1 * 2, and a particle at or beyond the
\* radius of influence 0.3 * size gets no force.
C9_ForceAtZeroIsMax ==
    \A i \in 1 .. Len(particles) :
        /\ (frameStrength = 1000 /\ particles[i].dist = 0) => particles[i].force = 2 * 1000
        /\ particles[i].dist >= maxDist => particles[i].force = 0

\* the last frame went past the fade-out return
FullFrame == pulseFrames' = pulseFrames + 1 /\ (opacityRef' >= OScale \div 100 \/ pulseActive)

\* C13: while the analyser is null, every frame leaves the bass, mid and high levels
\* at 0, detects no beat, creates no beat ripple, runs to completion and requests the
\* next frame.
C13_NoAnalyserNoBeat ==
    [][(FullFrame /\ ~analyserOn) =>
            /\ levels' = [bass |-> 0, mid |-> 0, high |-> 0]
            /\ beatCount' = beatCount
            /\ lastBeatTime' = lastBeatTime
            /\ audioHistory' = audioHistory
            /\ RippleIds(ripples') \subseteq RippleIds(ripples)
            /\ rafPulse' > 0]_vars

\* after a loud sample and a beat the analyser went away, and a frame has run since
C13_Witness ==
    /\ ~analyserOn
    /\ pulseActive
    /\ beatCount >= 1
    /\ audioHistory # <<>>
    /\ audioHistory[Len(audioHistory)] > 0
    /\ levels.bass = 0

\* C20: in a frame with an analyser a beat fires if and only if the current bass level
\* exceeds 1.5 x the mean of the rolling history, which already contains the current
\* sample, exceeds the floor 0.3, and more than 0.3 s have passed since the last
\* firing; the history never holds more than 10 samples.  The sample s is the band
\* sum, the level being s / (bassEnd * 255).
C20_BeatIff ==
    /\ [](Len(audioHistory) <= 10)
    /\ [][(FullFrame /\ analyserOn) =>
            LET h == audioHistory'
                s == h[Len(h)]
            IN  (beatCount' = beatCount + 1) <=>
                    /\ 2 * s * Len(h) > 3 * SumSeq(h)
                    /\ 10 * s > 3 * bassEnd * 255
                    /\ nowMs' - lastBeatTime > 300]_vars

\* the history is full and has been shifted, and beats have fired
C20_Witness == Len(audioHistory) = 10 /\ pulseFrames > 10 /\ beatCount >= 2

\* the frequencyBinCount of an AnalyserNode is half its fftSize, a power of two from
\* 32 up; the two engines set fftSize 128 and 256
BinCounts == {16, 32, 64, 128, 256}

\* the sum the loop accumulates for band b over a snapshot of frequencyBinCount bins
loopSum(s, b) ==
    LET bins == {i \in 0 .. frequencyBinCount - 1 : bandOf(i, frequencyBinCount) = b}
    IN  s.lo * Cardinality({i \in bins : i < s.cut})
            + s.hi * Cardinality({i \in bins : i >= s.cut})

\* C28: of n bins the loop adds those of [0, floor(0.1 n)) to bass, of
\* [floor(0.1 n), floor(0.5 n)) to mid and of [floor(0.5 n), n) to high, three
\* non-empty, contiguous, disjoint ranges that cover every bin; the band sums are the
\* sums over these ranges, and each level of a frame lies in [0, 1].
C28_BandsPartition ==
    /\ \A n \in BinCounts :
            LET bins(b) == {i \in 0 .. n - 1 : bandOf(i, n) = b}
            IN  /\ bins("bass") = 0 .. (n \div 10 - 1)
                /\ bins("mid") = (n \div 10) .. (n \div 2 - 1)
                /\ bins("high") = (n \div 2) .. (n - 1)
                /\ bins("bass") # {} /\ bins("mid") # {} /\ bins("high") # {}
                /\ bins("bass") \cup bins("mid") \cup bins("high") = 0 .. n - 1
    /\ \A s \in {LoudBass, QuietBass} :
            /\ loopSum(s, "bass") = BandSum(s, 0, bassEnd)
            /\ loopSum(s, "mid") = BandSum(s, bassEnd, midEnd)
            /\ loopSum(s, "high") = BandSum(s, midEnd, frequencyBinCount)
    /\ levels.bass \in 0 .. 1000
    /\ levels.mid \in 0 .. 1000
    /\ levels.high \in 0 .. 1000

\* a frame over a snapshot with every bin at 255, after one whose bass band alone was
\* at 255
C28_Witness ==
    /\ pulseFrames = 2
    /\ levels = [bass |-> 1000, mid |-> 1000, high |-> 1000]
    /\ audioHistory = <<bassEnd * 255, bassEnd * 255>>

\* C29: a release ripple is requested (createRipple is called, which pushes a ripple or
\* drops the request at the cap) by a mouseup during a mouse press and by a touchend or
\* touchcancel during a touch, once each, and by nothing else; a mouseleave during a
\* press ends the press without a request, so that a later mouseup requests none.
C29_OneRipplePerPress ==
    [][/\ releases' # releases =>
            /\ releases' = releases + 1
            /\ \/ lastEvent' = "mouseup" /\ mouse.pressing /\ ~mouse'.pressing
               \/ lastEvent' = "touchend" /\ touch.active /\ ~touch'.active
            /\ \/ Len(ripples') = Len(ripples) + 1 /\ lastCreate' = "pushed"
               \/ Len(ripples) = MAX_RIPPLES /\ ripples' = ripples /\ lastCreate' = "dropped"
       /\ releases' = releases => ripples' = ripples \/ pulseFrames' # pulseFrames
       /\ (lastEvent' = "mouseup" /\ mouse.pressing) =>
            releases' = releases + 1 /\ ~mouse'.pressing
       /\ (lastEvent' = "mouseleave" /\ mouse.pressing) =>
            releases' = releases /\ ~mouse'.pressing
       /\ (lastEvent' = "touchend" /\ touch.active) =>
            releases' = releases + 1 /\ ~touch'.active]_vars

\* a mouse press and a touch have been completed, and the mouseup that followed them
\* with no press in progress has requested nothing
C29_Witness ==
    /\ lastEvent = "mouseup"
    /\ releases = 2
    /\ nextRippleId = 3
    /\ lastCreate = "pushed"
    /\ ~mouse.pressing
    /\ ~touch.active
    /\ touch.startTime > mouse.pressStartTime

\* C30: the interaction strength of a drawn frame is within [0, 1]; it is
\* min(1, 2 x hold duration) while a touch or a mouse press is held, 0.3 on a hover
\* without press, and 0 with neither, and then no particle gets an interaction force.
C30_StrengthByInput ==
    [][(pulseFrames' # pulseFrames /\ (pulseActive \/ opacityRef' >= OScale \div 100)) =>
            LET ramp(hold) == IF 2 * hold > 1000 THEN 1000 ELSE 2 * hold
                expected == IF touch.active THEN ramp(nowMs' - touch.startTime)
                            ELSE IF mouse.pressing THEN ramp(nowMs' - mouse.pressStartTime)
                            ELSE IF mouse.active THEN 300
                            ELSE 0
            IN  /\ frameStrength' \in 0 .. 1000
                /\ frameStrength' = expected
                /\ frameStrength' = 0 =>
                        \A i \in DOMAIN particles' : particles'[i].force = 0]_vars

\* C31: a frame drawn while a touch is active together with a mouse hover or press
\* takes its strength from the touch, and every particle's distance is measured to
\* the point of the touch, whichever of the events came first.
C31_TouchOverridesMouse ==
    [][(pulseFrames' # pulseFrames /\ (pulseActive \/ opacityRef' >= OScale \div 100)
            /\ touch.active /\ mouse.active) =>
            LET hold == nowMs' - touch.startTime
                dist(p) == Isqrt((touch.x - p.x) * (touch.x - p.x)
                                    + (touch.y - p.y) * (touch.y - p.y))
            IN  /\ frameStrength' = IF 2 * hold > 1000 THEN 1000 ELSE 2 * hold
                /\ frameStrength' > 0 =>
                        \A i \in DOMAIN particles : particles'[i].dist = dist(particles[i])]_vars

\* a frame has taken the full strength of a touch held for half a second over a mouse
\* that hovers at another point without pressing, and has pulled a particle
C31_Witness ==
    /\ pulseFrames > 0
    /\ touch.active
    /\ mouse.active /\ ~mouse.pressing
    /\ <<mouse.x, mouse.y>> # <<touch.x, touch.y>>
    /\ lastEvent = "touchstart"
    /\ touch.startTime < nowMs
    /\ frameStrength = 1000
    /\ \E i \in DOMAIN particles : particles[i].force > 0

\* C33: every particle's size stays within [baseSize, 2.5 x baseSize] and its stored
\* opacity within [0.3, 0.8]; a frame leaves baseSize and opacity alone and moves the
\* size no further than to baseSize x (1 + 1.5 x highLevel), never away from it.
C33_ParticleBounds ==
    /\ [](\A i \in DOMAIN particles :
            /\ particles[i].baseSize <= particles[i].size
            /\ 2 * particles[i].size <= 5 * particles[i].baseSize
            /\ particles[i].opacity \in 300 .. 800)
    /\ [][pulseFrames' # pulseFrames =>
            \A i \in DOMAIN particles :
                LET p == particles[i]
                    q == particles'[i]
                    target == (p.baseSize * (1000 + (levels'.high * 3) \div 2)) \div 1000
                IN  /\ q.baseSize = p.baseSize
                    /\ q.opacity = p.opacity
                    /\ p.size <= target => (p.size <= q.size /\ q.size <= target)
                    /\ p.size >= target => (target <= q.size /\ q.size <= p.size)
                    /\ (p.size - target >= 10 \/ target - p.size >= 10) => q.size # p.size]_vars

\* a frame with the high band at its loudest has grown the particles, and the silent
\* frame after it has let them shrink without reaching the base size
C33_Witness ==
    /\ pulseFrames = 2
    /\ levels.high = 0
    /\ \A i \in DOMAIN particles :
            /\ particles[i].size > particles[i].baseSize
            /\ particles[i].size < (particles[i].baseSize * 115) \div 100

\* C25: while the component is mounted every run of draw, the early exit of a faded
\* and inactive entity included, leaves a frame requested; the global opacity stays
\* within [0, 1], and a frame moves it toward 1 while active and toward 0 while
\* inactive (strictly, while it is further than the rounding step from that end).
C25_DrawKeepsRequesting ==
    /\ [](0 <= opacityRef /\ opacityRef <= OScale)
    /\ [][pulseFrames' # pulseFrames =>
            /\ pulseMounted' => rafPulse' > 0
            /\ pulseActive =>
                    /\ opacityRef <= opacityRef'
                    /\ opacityRef < OScale - 100 => opacityRef < opacityRef'
            /\ ~pulseActive =>
                    /\ opacityRef' <= opacityRef
                    /\ opacityRef > 100 => opacityRef' < opacityRef]_vars

\* a frame took the early exit at opacity 0 while inactive, and after reactivation
\* the next frame has raised the opacity by one step, with a frame requested
C25_Witness ==
    /\ pulseMounted
    /\ pulseActive
    /\ pulseFrames = 2
    /\ opacityRef = fade(0, TRUE)
    /\ rafPulse > 0

-----------------------------------------------------------------------------
(* StarTunnel: properties *)

\* C7: the star collection holds exactly 800 stars from initialisation onwards, across
\* frames, respawns, prop changes and resizes; no step changes a star's colour slot o,
\* and a star whose depth has not been reset keeps its x and y, so a respawn rewrites
\* x, y and z of the same slot and nothing else.
C7_StarPopulation ==
    /\ [](Len(stars) = numStars)
    /\ [][\A i \in 1 .. numStars :
            /\ stars'[i].o = stars[i].o
            /\ stars'[i].z < stars[i].z => (stars'[i].x = stars[i].x /\ stars'[i].y = stars[i].y)
            /\ stars'[i].z >= stars[i].z => stars'[i].z \in {stars[i].z, starWidth * 10}]_vars

\* a star was respawned by the last frame, after a resize and a change of props
C7_Witness ==
    /\ starFrames > 0
    /\ \E i \in 1 .. numStars : stars[i].z = starWidth * 10
    /\ starWidth # innerWidth
    /\ isCollapsedRef

\* C8: a window resize rebuilds the viewport dimensions and repopulates the star set
\* for the new dimensions, so after a resize every star's depth lies within the new
\* width; no other step repopulates.
C8_ResizeRepopulates ==
    [][IF <<starWidth', starHeight'>> # <<starWidth, starHeight>>
       THEN \A i \in 1 .. numStars : stars'[i].z <= starWidth' * 10
       ELSE \A i \in 1 .. numStars : stars'[i].o = stars[i].o]_vars

\* C27: a frame that is drawn uses the size (and with it the centre, size / 2) the
\* canvas has at that moment, which is the one handleResize last computed, resized the
\* canvas to and initialised the particles for.
C27_FrameUsesCanvasSize ==
    [][(pulseFrames' # pulseFrames /\ (pulseActive \/ opacityRef' >= OScale \div 100))
            => frameSize' = canvasPx']_vars

\* C26: after every frame every star's depth satisfies 0 < z <= the current viewport
\* width, so the radius (1 - z / width) * 4 handed to arc is never negative, also in
\* the frames after a resize to a smaller width.
C26_DepthWithinViewport ==
    [][starFrames' # starFrames =>
            \A i \in 1 .. numStars :
                0 < stars'[i].z /\ stars'[i].z <= starWidth' * 10]_vars

-----------------------------------------------------------------------------
(* SpaceMusic: properties *)

\* The engine is torn down: the last run of the activation effect took the else
\* branch, or the component is unmounted.
EngineIdle == ~mounted \/ ~(active /\ ~muted)

\* The layers of the engine are running.
EngineOn == mounted /\ audioCtx = "running" /\ active /\ ~muted
            /\ layers.cosmicWind.source # 0

NoCleanupPending == \A v \in VoiceKinds : cleanups[v] = 0

\* C1 (as stated): once the engine is deactivated or unmounted no callback it
\* scheduled is pending, the node-cleanup timeouts of started voices included.
C1_NoCallbackAfterTeardown == EngineIdle => (timers = {} /\ NoCleanupPending)

\* C1 (amended): once the engine is deactivated or unmounted none of the recurring
\* or self-rescheduling callbacks (the two LFO intervals, the drone and melody
\* intervals, the shimmer and signal timeouts) is pending; only one-shot
\* node-cleanup timeouts of voices already started may remain.
C1_NoRecurringAfterTeardown == EngineIdle => timers = {}

\* A deactivation right after an activation: voices were started, their cleanups
\* are pending, no recurring callback is.
C1_Witness ==
    /\ mounted /\ audioCtx = "running" /\ ~active
    /\ timers = {}
    /\ cleanups["shimmer"] = 1 /\ cleanups["note"] = 2
    /\ windPhase = 0 /\ voidPhase = 0

Instances(kind) == Cardinality({n \in running : n.kind = kind})

\* C3: every layer has at most one live instance (one noise source, one drone
\* oscillator, one callback of each recurring kind); running the activation branch
\* while the layers run creates nothing, and running the deactivation branch while
\* idle clears nothing.
C3_AtMostOneInstance ==
    /\ \A k \in TimerKinds : Cardinality(Pending(k)) <= 1
    /\ Instances("windSource") <= 1
    /\ Instances("voidOsc") <= 1
    /\ EngineOn => layerEffect(Eng, audioCtx, TRUE, FALSE) = Eng
    /\ (mounted /\ EngineIdle) => layerEffect(Eng, audioCtx, active, TRUE) = Eng

\* The engine runs all its layers after a second activation.
C3_Witness ==
    /\ EngineOn
    /\ \A k \in TimerKinds : Cardinality(Pending(k)) = 1
    /\ Instances("windSource") = 1 /\ Instances("voidOsc") = 1
    /\ nextNodeId > 6

\* C34: whenever active holds, muted does not and the audio context exists, the layers
\* are running and the master gain ramps up to 0.5, also when the context is
\* constructed while active and not muted already hold.
C34_ActiveMeansRunning ==
    (mounted /\ active /\ ~muted /\ audioCtx = "running") =>
        (EngineOn /\ masterTarget = 50 /\ timers # {})

\* C21: while the engine is on exactly one shimmer timeout and one signal timeout
\* are pending; every step that plays a shimmer or a signal leaves exactly one new
\* successor timeout of its layer pending and happens only with the engine on; a
\* pending timeout does fire (events keep occurring) as long as timer ids are left;
\* with the engine idle or unmounted none is pending, so none fires.
C21_SelfRescheduling ==
    /\ [](EngineOn => /\ Cardinality(Pending("shimmer")) = 1
                      /\ Cardinality(Pending("signal")) = 1)
    /\ [](EngineIdle => Pending("shimmer") = {} /\ Pending("signal") = {})
    /\ [][\A k \in {"shimmer", "signal"} :
            cleanups'[k] > cleanups[k] =>
                /\ EngineOn'
                /\ Cardinality({t \in timers' : t.kind = k}) = 1
                /\ {t \in timers' : t.kind = k} \cap timers = {}]_vars
    /\ \A t \in [id : 1 .. MaxTimerId, kind : {"shimmer", "signal"}] :
            (t \in timers) ~> (t \notin timers \/ nextTimerId + 2 > MaxTimerId)

\* A shimmer and a signal have fired with the engine on: voices of both kinds were
\* played and the successors of both are pending.
C21_Witness ==
    /\ EngineOn
    /\ cleanups["shimmer"] >= 2 /\ cleanups["signal"] >= 1
    /\ \E t \in Pending("shimmer") : t.id > ActivationTimers
    /\ \E t \in Pending("signal") : t.id > ActivationTimers

\* C22: once the cleanup callback of a one-shot voice has run, none of the nodes
\* the voice constructed is connected any more, and the callback ran no earlier than
\* the voice's scheduled stop time.
C22_VoiceNodesReleased ==
    \A i \in 1 .. Len(voices) :
        voices[i].cleanedAt >= 0 =>
            /\ voices[i].connected = {}
            /\ voices[i].cleanedAt >= voices[i].stopAt

\* C23: after every activation or deactivation made with an audio context, the
\* automation of the gain holds events of that latest transition, and every event
\* scheduled at or after the current time belongs to it (what an earlier transition
\* had scheduled from now on was cancelled).
C23_LatestRampOnly ==
    transitions > 0 =>
        /\ \E i \in 1 .. Len(timeline) : timeline[i].by = transitions
        /\ \A i \in 1 .. Len(timeline) :
              timeline[i].time >= gainClock => timeline[i].by = transitions

\* C14: the audio context is constructed at most once, and only by the step in
\* which the click / keydown listener runs (never before the first interaction);
\* onAnalyserReady is invoked exactly once, in that same step; after unmount no
\* recurring timer of the engine is pending and the context is not left running.
C14_ContextLifecycle ==
    /\ [](/\ analyserCalls <= 1
          /\ (audioCtx = "null") <=> (analyserCalls = 0)
          /\ ~mounted => (timers = {} /\ audioCtx # "running"))
    /\ [][(audioCtx' # audioCtx \/ analyserCalls' # analyserCalls)
            => \/ /\ mounted /\ listening /\ ~listening'
                  /\ audioCtx = "null" /\ audioCtx' = "running"
                  /\ analyserCalls' = analyserCalls + 1
               \/ /\ mounted /\ ~mounted'
                  /\ audioCtx = "running" /\ audioCtx' = "closed"
                  /\ analyserCalls' = analyserCalls]_vars

\* The engine was unmounted while all its layers were running: the handles are
\* still in layersRef, the timers are gone and the context is closed.
C14_Witness ==
    /\ ~mounted /\ analyserCalls = 1 /\ audioCtx = "closed"
    /\ active /\ ~muted
    /\ layers.cosmicWind.lfoInterval # 0 /\ layers.padSequencer.melodyInterval # 0
    /\ timers = {}

\* C15: while no audio context exists (its construction failed, or was never
\* attempted) the engine has created no layer and no recurring callback, and no
\* exception has escaped the interaction handler.
C15_FailedConstructionIsQuiet ==
    audioCtx = "null" =>
        /\ layers = NullLayers /\ timers = {} /\ running = {} /\ connected = {}
        /\ ~uncaught

\* C17: whenever the engine is idle with a live context, no gain node of a
\* continuous layer (cosmic wind, deep void) is still connected to the master gain.
C17_NoLayerNodeLeftConnected ==
    (mounted /\ audioCtx = "running" /\ ~(active /\ ~muted)) => connected = {}

-----------------------------------------------------------------------------
(* Frame loops: properties *)

-----------------------------------------------------------------------------
(* useMotionParallax: properties *)

InUnit(v) == -PScale <= v /\ v <= PScale

\* C16: at most one input source has a registered handler writing the parallax
\* target: the orientation handler only on a mobile device with permission granted,
\* the pointer handlers only on other devices, never both.
C16_OneInputSource ==
    /\ ~(orientationOn /\ mouseOn)
    /\ orientationOn => (isMobile /\ gyroGranted)
    /\ mouseOn => ~isMobile

\* C19: in every state getDisplacement(depth, maxDisplacement) is the last computed
\* current scaled by maxDisplacement * depth (depth in 1/10), whether or not the hook
\* is enabled; current is written only by a frame of the animation loop, which
\* leaves the target alone.
C19_DisplacementIsScaledCurrent ==
    /\ [](\A depth10 \in {0, 5, 10}, maxDisplacement \in {12, 20} :
            getDisplacement(depth10, maxDisplacement) =
                [x |-> (currentOffset.x * maxDisplacement * depth10) \div 10,
                 y |-> (currentOffset.y * maxDisplacement * depth10) \div 10])
    /\ [][currentOffset' # currentOffset =>
            /\ rafParallax > 0
            /\ parallaxFrames' = parallaxFrames + 1
            /\ targetOffset' = targetOffset]_vars

\* The hook was disabled with current away from the centre and the target moved on.
C19_Witness ==
    /\ ~enabled
    /\ currentOffset.x # 0 /\ currentOffset.y # 0
    /\ targetOffset # currentOffset
    /\ getDisplacement(10, 20).x = currentOffset.x * 20

\* C32: the promise of requestGyroscopePermission is never rejected; it resolves to
\* true exactly when the permission state it leaves is granted (the platform granted
\* it or asks for none), to false on a denial or a throw of the platform; the
\* orientation handler is registered only while permission is granted, so that before
\* it only pointer input moves the target.
C32_PermissionResolves ==
    /\ [](permission \in {"none", "true", "false"})
    /\ [](orientationOn => gyroGranted)
    /\ [][<<permission', gyroGranted'>> # <<permission, gyroGranted>> =>
            ((permission' = "true") = gyroGranted')]_vars
    /\ [][(~gyroGranted /\ targetOffset' # targetOffset) => mouseOn]_vars

\* C24: with no further input (the target stays as it is) the next frame brings a
\* current that is off the centre strictly closer to the centre, on each axis.
C24_DecaysTowardCentre ==
    LET nearer(cur, tgt) ==
            LET nxt == follow(cur, tgt)
            IN  cur # 0 => (IF nxt < 0 THEN -nxt ELSE nxt) < (IF cur < 0 THEN -cur ELSE cur)
    IN  /\ nearer(currentOffset.x, targetOffset.x)
        /\ nearer(currentOffset.y, targetOffset.y)

\* C10: for followSpeed and centerAttraction in (0,1), after any interleaving of
\* pointer moves inside the viewport, pointer leaves, orientation events of any tilt
\* and frames, both components of target and of current lie within [-1, 1].
C10_OffsetsBounded ==
    /\ InUnit(targetOffset.x) /\ InUnit(targetOffset.y)
    /\ InUnit(currentOffset.x) /\ InUnit(currentOffset.y)

\* Frames have followed a tilt beyond the mapped range on both axes.
C10_Witness ==
    /\ targetOffset = [x |-> -PScale, y |-> PScale]
    /\ currentOffset.x < 0 /\ currentOffset.y > 0
    /\ parallaxFrames >= 2
    /\ 0 < followSpeed /\ followSpeed < 1000
    /\ 0 < centerAttraction /\ centerAttraction < 1000


-----------------------------------------------------------------------------
(* AppContent properties *)

\* The step in which the countdown calls handleComplete
Completes == completions' = completions + 1

\* C35: when the countdown reaches zero with the pre-generated report already in
\* currentReport, completion goes directly to REPORT with that report and
\* generateObservationReport is not invoked again; with no report it is invoked and
\* the app waits in PROCESSING.
C35_ArrivedReportSkipsSecondCall ==
    [][Completes =>
        IF currentReport # NoReport
        THEN appState' = "REPORT" /\ currentReport' = currentReport
                /\ generations' = generations /\ pending' = pending
        ELSE appState' = "PROCESSING" /\ generations' = generations + 1]_vars


\* C36: whatever the order of the pre-generation promise, the completion promise,
\* abort and a later start, the current report does not change while the app stays
\* in REPORT, and the report shown in REPORT, the one closeReport archives, was
\* generated for the session just completed, with that session's duration.
C36_ReportStableAndOwn ==
    /\ [][(appState = "REPORT" /\ appState' = "REPORT") => currentReport' = currentReport]_vars
    /\ []((appState = "REPORT" /\ currentReport # NoReport)
            => (currentReport.session = session /\ currentReport.duration = totalDuration))


\* A step of the countdown interval
Ticks == appState = "FOCUSING" /\ session' = session /\ (timeLeft' # timeLeft \/ Completes)

\* C37: exactly one countdown interval runs while the app is FOCUSING and none in any
\* other state; timeLeft starts at tier x 60, goes down by exactly 1 per tick and is
\* never negative; handleComplete is called once per session, on the tick taken
\* with timeLeft <= 1.
C37_OneCountdown ==
    /\ [](Cardinality(intervals) = IF appState = "FOCUSING" THEN 1 ELSE 0)
    /\ [](timeLeft >= 0 /\ completions <= 1)
    /\ [][session' # session => (appState' = "FOCUSING" /\ timeLeft' = selectedTier * 60)]_vars
    /\ [][timeLeft' # timeLeft => (session' # session \/ timeLeft' = timeLeft - 1)]_vars
    /\ [][Completes = (Ticks /\ timeLeft <= 1)]_vars

\* The second session has counted down to zero and completed.
C37_Witness ==
    /\ session = 2
    /\ appState = "PROCESSING"
    /\ completions = 1
    /\ timeLeft = 0
    /\ intervals = {}


\* C38: the archive changes only in closeReport, which puts the current report in
\* front of the unchanged older entries, returns to IDLE and clears the current
\* report; an aborted session, through SIGNAL_LOST back to IDLE, adds nothing.
C38_ArchiveOnlyByClose ==
    /\ [][archive' # archive =>
            /\ appState = "REPORT" /\ currentReport # NoReport
            /\ archive' = <<currentReport>> \o archive]_vars
    /\ [][(appState = "REPORT" /\ appState' # "REPORT") =>
            /\ archive' = <<currentReport>> \o archive
            /\ appState' = "IDLE"
            /\ currentReport' = NoReport]_vars
    /\ [][(appState' = "SIGNAL_LOST" \/ appState = "SIGNAL_LOST") => archive' = archive]_vars

\* A first session was completed and archived in front of the saved report, a second
\* one was aborted and the app is back in IDLE.
C38_Witness ==
    /\ session = 2
    /\ appState = "IDLE"
    /\ timeLeft > 0
    /\ Len(archive) = 2
    /\ archive[2] = SavedReport
    /\ archive[1].session = 1


-----------------------------------------------------------------------------
(* /api/gemini handler properties *)

\* C39: a missing API key, a failed or empty model response and unparsable model
\* output are answered with status 500 and an error body, a method other than POST
\* (and OPTIONS) with 405; for every response other than a 200 without an error field
\* the client returns a fallback report flagged isSystemGenerated; a successful
\* response gives a report with the requested duration and without the flag.
C39_HandlerFailureFallsBack ==
    reportCalls > 0 =>
        LET req == exchange.request
            res == exchange.response
            posted == req.method = "POST"
        IN  /\ (posted /\ (~exchange.apiKey \/ exchange.ai \in {"throws", "empty", "garbage"}))
                    => (res.status = 500 /\ res.body.json /\ res.body.error)
            /\ (req.method \notin {"POST", "OPTIONS"}) => res.status = 405
            /\ (res.status # 200 \/ res.body.error)
                    => (report.isSystemGenerated /\ report.duration = req.duration)
            /\ (posted /\ res.status = 200)
                    => (~res.body.error /\ ~report.isSystemGenerated
                            /\ report.duration = req.duration
                            /\ report.dimensionCode = res.body.dimensionCode)
            /\ ~rejected

\* The second request, for 120 minutes, came to a handler without a key and was
\* answered with 500; the client has returned a fallback.
C39_Witness ==
    /\ reportCalls = 2
    /\ exchange.request.method = "POST"
    /\ ~exchange.apiKey
    /\ exchange.response.status = 500
    /\ report.isSystemGenerated
    /\ report.duration = 120

=============================================================================
